---------------------------- MODULE Spec2Model ----------------------------
(***************************************************************************)
(* A model of the gie20 core: the contextual performance ledger            *)
(* (core/meta_reflection.py), the guardian (core/meta_guardian.py), the    *)
(* hive population (core/gie_hive.py) and the controller (core/gie_mind.py)*)
(*                                                                         *)
(* Each component has its own specification (SpecLedger, SpecGuardian,     *)
(* SpecHive, SpecMind) over the same variables; a component that a         *)
(* specification does not exercise stays in its constructed state.         *)
(*                                                                         *)
(* Numbers: Python floats with two decimals are modelled as integers in    *)
(* hundredths (0.25 is 25); ledger contexts are in tenths, as round(x, 1)  *)
(* produces them.                                                          *)
(***************************************************************************)
EXTENDS Integers, Sequences, FiniteSets, TLC

VARIABLES
    \* ---- MetaReflection (core/meta_reflection.py)
    knowledge,      \* self.knowledge: key -> [win, trials]
    memory,         \* self.memory: the list of logged events
    ledgerOp,       \* the MetaReflection method that ran last
    ledgerArg,      \* the argument it was called with (a history or a remote ledger)
    \* ---- MetaGuardian (core/meta_guardian.py)
    config,         \* self.config
    meta_log_len,   \* len(self.meta_log): the log is append-only and only its
    meta_log_last,  \*   last entry, self.meta_log[-1], is ever read
    last_snapshot,  \* self.last_snapshot: 0 for None, else the number of the snapshot
    gie_system,     \* what the gie_system adapters returned in the last cycle
    guardianTrace,  \* the checks run and corrective actions invoked in the last cycle
    emergency,      \* the guardian's last word on margin: TRUE from an
                    \*   emergency_margin_action until a margin check finds no breach
    \* ---- GieHive (core/gie_hive.py)
    agents,         \* self.agents: the list of agents (what the hive reads of each)
    hivePc,         \* where run_all stands: "idle", "acting", "reflecting"
    hiveCycle,      \* run_all: the cycle under way, or the one it ended in
    n_cycles,       \* run_all: its argument
    hiveIdx,        \* run_all: the index (from 1) of the agent that acted last
    acted,          \* run_all: the number of act() calls of the cycle under way
    hiveError,      \* the exception the last hive call raised, or "none"
    cloned,         \* the index (from 0) meta_reflection cloned last, or -1
    removed,        \* the index (from 0) meta_reflection removed last, or -1
    \* ---- GieMind (core/gie_mind.py)
    stats,          \* self.stats: engine name -> [win, trials]
    saved_stats,    \* the stats file save_stats wrote, or <<>> while there is none
    hunger,         \* self.hunger
    satisfaction,   \* self.satisfaction
    curiosity,      \* self.curiosity
    lastRun,        \* the last call of run: what suggest returned in its first
                    \*   step, the engine it chose and how it ended
    \* ---- MetaReflection.suggest (core/meta_reflection.py)
    sugItems,       \* list(self.knowledge.items()), in insertion order
    sugEnv,         \* the query map env
    sugCuriosity,   \* self.curiosity
    sugResult,      \* what suggest returned last ("None" for None)
    sugBranch,      \* how it returned: "none", "explore", "exploit"; "unset" before
    \* ---- the sensors (core/base_sensor.py, core/sensors)
    sensorKind,     \* the class of the sensor
    window,         \* self.window
    parent,         \* the sensor
    child,          \* the sensor clone() or autoclone() returned, if any
    lastRead,       \* the last read: on whom, of what, its result and anomaly
                    \*   flag, and the hunger before it
    \* ---- StrategyEvolver (core/strategy_evolver.py)
    engines,        \* self.engines: key -> what the engine offers (hasattr)
    evolver_stats,  \* self.stats: key -> [win, trials]
    key_order,      \* the keys of self.stats in insertion order
    meta_reflection,\* self.meta_reflection: "None" or "MetaReflection"
    evolved,        \* the last call of evolve: the keys it registered, in
                    \*   order, and the exception it raised, or "none"
    \* ---- BaseEngine (core/base_engine.py)
    engine_hunger,  \* self.hunger, in hundredths
    engine_curiosity,\* self.curiosity, in hundredths
    engine_reward,  \* self.reward: the sum of the rewards received
    engine_memory,  \* len(self.memory)
    last_reward,    \* the reward of the last receive_feedback, or "none"
    clone_count,    \* self.clone_count: the self_improve calls made
    \* ---- GieMind.read_environment (core/gie_mind.py)
    envGens,        \* self.sensors: of each generator its buffer, hunger,
                    \*   growth_signal and len(history)
    envPc,          \* of each worker thread, where its read stands
    envTick,        \* mt5_tick, the observation all workers read
    envAnomaly,     \* of each worker thread, its local variable anomaly
    envSubmitted,   \* the generators as they were when the reads were submitted
    envTicks,       \* the number of read_environment calls so far
    sensor_values,  \* what read_environment returned last
    \* ---- gie_main_switch.py: gie_start and __main__
    mainPc,         \* where the process stands: "init" (gie_start before its
                    \*   loop), "cycle", "sleep", "ended" (the process is over)
    n_cycle,        \* gie_start: n_cycle
    nextEngine,     \* gie_start: the index (from 1) of the engine the for loop
                    \*   of the cycle runs next
    ending,         \* how the process ended: "none", "normal", "interrupt",
                    \*   "caught" (the loop's except Exception), "killed"
    auto_restart,   \* GIE_CONFIG["auto_restart"] of the running process
    restarts,       \* the number of os.execv restarts so far
    \* MetaMaster (core/Meta_Master.py)
    gie_hunger,     \* self.gie_hunger
    success_streak, \* self.success_streak
    meta_mood,      \* self.meta_mood
    master_cycle,   \* the cycles of run() completed so far
    evolutions,     \* the evolution cycles launched so far
    launched,       \* whether the latest check launched an evolution cycle
    negative_run,   \* history: the consecutive checks with negative profit since
                    \* the last evolution cycle or the last non-negative profit
    \* AutoEvolver (core/auto_evolver.py)
    evoLogs,        \* whether self.logger offers log(msg)
    evoPc,          \* the position of evolve()
    evoCall,        \* the calls of evolve() begun so far
    head,           \* the branch checked out: 0 for main, n for the branch of call n
    branches,       \* the evolution branches that exist
    evoTrace,       \* the steps the current call has attempted, with their outcome
    evoReturn,      \* what the latest call returned or raised, "none" while it runs
    \* Hive of sensors (core/base_sensor.py)
    member_banks,   \* the knowledge_bank of each member, in the order of members
    knowledge_bank, \* the hive's knowledge_bank
    banks_before,   \* history: the hive's bank and the members' banks before the
                    \* latest share_knowledge
    swarmOp,        \* the latest operation on the hive of sensors
    \* GieCloneManager (core/gie_clone.py)
    clone_objs,     \* every GieClone created so far, by number
    clones,         \* self.clones: the live list, as numbers of clones
    new_clones,     \* new_clones of the running iteration of mass_cloning
    managerPc,      \* the position of mass_cloning
    iterations_left, \* the iterations of mass_cloning still to run
    clone_idx,      \* the position of the for loop in self.clones
    \* MT5DataProvider (data_providers/mt5_data.py)
    running,        \* self.running
    mt5_initialized, \* self.mt5_initialized
    retries,        \* the local retries of run_data_loop
    turns,          \* history: the iterations the loop has begun
    loopPc,         \* where the loop thread is
    stopPc,         \* where the caller of stop() is
    provider_auto_restart, \* self.auto_restart
    max_retries     \* self.max_retries

ledgerVars == <<knowledge, memory, ledgerOp, ledgerArg>>

guardianVars ==
    <<config, meta_log_len, meta_log_last, last_snapshot, gie_system, guardianTrace, emergency>>

hiveVars ==
    <<agents, hivePc, hiveCycle, n_cycles, hiveIdx, acted, hiveError, cloned, removed>>

mindVars == <<stats, saved_stats, hunger, satisfaction, curiosity, lastRun>>

queryVars == <<sugItems, sugEnv, sugCuriosity, sugResult, sugBranch>>

\* the components added to the first four
sensorVars == <<sensorKind, window, parent, child, lastRead>>

evolverVars == <<engines, evolver_stats, key_order, meta_reflection, evolved>>

engineVars == <<engine_hunger, engine_curiosity, engine_reward, engine_memory, last_reward,
               clone_count>>

envVars == <<envGens, envPc, envTick, envAnomaly, envSubmitted, envTicks, sensor_values>>

mainVars == <<mainPc, n_cycle, nextEngine, ending, auto_restart, restarts>>

masterVars == <<gie_hunger, success_streak, meta_mood, master_cycle, evolutions, launched, negative_run>>

autoVars == <<evoLogs, evoPc, evoCall, head, branches, evoTrace, evoReturn>>

swarmVars == <<member_banks, knowledge_bank, banks_before, swarmOp>>

managerVars == <<clone_objs, clones, new_clones, managerPc, iterations_left, clone_idx>>

providerVars == <<running, mt5_initialized, retries, turns, loopPc, stopPc, provider_auto_restart,
                  max_retries>>

laterVars == <<queryVars, sensorVars, evolverVars, engineVars, envVars, mainVars, masterVars, autoVars, swarmVars, managerVars, providerVars>>

vars == <<ledgerVars, guardianVars, hiveVars, mindVars, laterVars>>

\* what the actions of one component leave alone
exceptLedger == <<guardianVars, hiveVars, mindVars, laterVars>>

exceptGuardian == <<ledgerVars, hiveVars, mindVars, laterVars>>

exceptHive == <<ledgerVars, guardianVars, mindVars, laterVars>>

exceptMind == <<ledgerVars, guardianVars, hiveVars, laterVars>>

firstVars == <<ledgerVars, guardianVars, hiveVars, mindVars>>

exceptQuery == <<firstVars, sensorVars, evolverVars, engineVars, envVars, mainVars, masterVars, autoVars, swarmVars, managerVars, providerVars>>

exceptSensors == <<firstVars, queryVars, evolverVars, engineVars, envVars, mainVars, masterVars, autoVars, swarmVars, managerVars, providerVars>>

exceptEvolver == <<firstVars, queryVars, sensorVars, engineVars, envVars, mainVars, masterVars, autoVars, swarmVars, managerVars, providerVars>>

exceptEngine == <<firstVars, queryVars, sensorVars, evolverVars, envVars, mainVars, masterVars, autoVars, swarmVars, managerVars, providerVars>>

exceptEnv == <<firstVars, queryVars, sensorVars, evolverVars, engineVars, mainVars, masterVars, autoVars, swarmVars, managerVars, providerVars>>

exceptMain == <<firstVars, queryVars, sensorVars, evolverVars, engineVars, envVars, masterVars, autoVars, swarmVars, managerVars, providerVars>>

exceptMaster == <<firstVars, queryVars, sensorVars, evolverVars, engineVars, envVars, mainVars, autoVars, swarmVars, managerVars, providerVars>>

exceptAuto == <<firstVars, queryVars, sensorVars, evolverVars, engineVars, envVars, mainVars, masterVars, swarmVars, managerVars, providerVars>>

exceptSwarm == <<firstVars, queryVars, sensorVars, evolverVars, engineVars, envVars, mainVars, masterVars, autoVars, managerVars, providerVars>>

exceptManager == <<firstVars, queryVars, sensorVars, evolverVars, engineVars, envVars, mainVars, masterVars, autoVars, swarmVars, providerVars>>

exceptProvider == <<firstVars, queryVars, sensorVars, evolverVars, engineVars, envVars, mainVars, masterVars, autoVars, swarmVars, managerVars>>

-----------------------------------------------------------------------------
(* Small helpers                                                           *)

Range(s) == {s[i] : i \in 1..Len(s)}

\* dict.get(key, default)
Get(m, key, default) == IF key \in DOMAIN m THEN m[key] ELSE default

Max2(a, b) == IF a >= b THEN a ELSE b

Min2(a, b) == IF a <= b THEN a ELSE b

\* All sequences over S of length at most n
SeqsUpTo(S, n) == UNION {[1..k -> S] : k \in 0..n}

-----------------------------------------------------------------------------
(* Bounds of the model                                                     *)

\* longest history handed to update()
MaxHistory == 1

\* longest self.memory
MaxMemory == 2

\* cap on the trial counter of a ledger entry (the code has none)
MaxCount == 4

\* cap on len(self.meta_log) of the guardian (the code has none)
MaxMetaLog == 3

\* cap on len(self.agents) for add_agent and clone_agent (the code has none)
MaxAgents == 22

\* largest n_cycles handed to run_all
MaxCycles == 2

\* largest self_steps handed to run
MaxSteps == 2

\* cap on the trial counter of an engine in self.stats (the code has none)
MaxMindTrials == 6

\* the raw values a sensor is fed
MaxReads == 6

\* the raw values a sensor is fed when it is cloned as well
MaxCloneReads == 2

\* the engines the evolver holds
MaxEngines == 3

\* the trials recorded for one engine of the evolver
MaxEngineTrials == 2


\* the feedbacks one engine receives
MaxFeedbacks == 6

\* the self_improve calls of one engine
MaxImproves == 4


\* the calls of read_environment
MaxTicks == 3


\* the engines gie_start loads
LoadedEngines == 2

\* the cycles of the main loop
MaxMainCycles == 3

\* the restarts of the process
MaxRestarts == 3

\* the length of a history of observations handed to update() at once
MaxKeyHistory == 3

\* the cycles of MetaMaster.run()
MaxChecks == 21

\* the calls of AutoEvolver.evolve()
MaxEvolveCalls == 3

\* the members of a hive of sensors
MaxMembers == 3

\* the hunger_level of the initial clone
MaxInitialHunger == 4

\* the iterations of one mass_cloning
MaxIterations == 2

\* mass_cloning is not begun again with more clones than this ever created
MaxCloneObjs == 2


\* the largest max_retries configured
MaxRetryLimit == 3

\* the iterations of the data loop
MaxLoopTurns == 4

-----------------------------------------------------------------------------
(* MetaReflection: the performance ledger                                  *)

\* self.adaptivity = 0.5, in tenths
adaptivity == 5

\* history[-100:]
HistoryWindow == 100

Engines == {"A", "B"}

\* a key that keeps the reading as it came, without round(x, 1)
Unrounded(x) == x

\* round(x, 1) of Python on a float x given in hundredths, result in tenths.
\* Python rounds the binary value of the float: 0.05 -> 0.1, but 0.15 -> 0.1,
\* 0.25 -> 0.2 and 0.35 -> 0.3 (ties that are not exact in binary go down).
Round1(x) ==
    IF x \in {15, 25, 35} THEN x \div 10 ELSE (x + 5) \div 10

\* The environments of the records: readings in hundredths.
EnvQuiet == [noise |-> 4, pressure |-> 0, volume |-> 0]

EnvLoud == [noise |-> 30, pressure |-> 0, volume |-> 0]

Envs == {EnvQuiet, EnvLoud}

\* A history record as update() reads it: {"env": ..., "engine": ..., "score": ...}
ScoredRecords ==
    [engine : {"A"}, env : {EnvQuiet}, score : {0, 1}]
        \cup [engine : {"B"}, env : {EnvQuiet}, score : {1}]
        \cup [engine : {"A"}, env : {EnvLoud}, score : {1}]

\* An event as log_event() builds it: it has no "env" and no "score".
Events == [engine : {"A"}, result : {"engine_added"}]

\* One empty ledger value, so that equality of ledgers is equality of functions
EmptyLedger == [k \in {} |-> [win |-> 0, trials |-> 0]]

\* key = (engine, noise, pressure, volume) of a record (update, lines 57-62)
KeyOf(record) ==
    LET env == Get(record, "env", <<>>)
    IN  << Get(record, "engine", "None"),
           Round1(Get(env, "noise", 0)),
           Round1(Get(env, "pressure", 0)),
           Round1(Get(env, "volume", 0)) >>

\* win = 1 if record.get("score", 0) else 0
WinOf(record) == IF Get(record, "score", 0) # 0 THEN 1 ELSE 0

\* history[-100:]
LastRecords(history) ==
    IF Len(history) <= HistoryWindow THEN history
    ELSE SubSeq(history, Len(history) - HistoryWindow + 1, Len(history))

\* number of positions of h satisfying a key (and a win)
RECURSIVE CountKey(_, _, _)
CountKey(h, key, winsOnly) ==
    IF h = <<>> THEN 0
    ELSE (IF KeyOf(Head(h)) = key /\ (~winsOnly \/ WinOf(Head(h)) = 1) THEN 1 ELSE 0)
         + CountKey(Tail(h), key, winsOnly)

\* the correlations dict of update() (lines 55-67)
Correlations(history) ==
    LET h == LastRecords(history)
    IN  [k \in {KeyOf(h[i]) : i \in 1..Len(h)} |->
            [win |-> CountKey(h, k, TRUE), trials |-> CountKey(h, k, FALSE)]]

\* int(prev * adaptivity + v * (1 - adaptivity)), prev already holding prev + v
Blend(prevPlusV, v) == (prevPlusV * adaptivity + v * (10 - adaptivity)) \div 10

\* the new entry of a key present in both (update, lines 70-77)
UpdateEntry(prev, v) ==
    [win |-> Blend(prev.win + v.win, v.win),
     trials |-> Blend(prev.trials + v.trials, v.trials)]

\* self.knowledge after update(history)
Update(know, history) ==
    LET c == Correlations(history)
    IN  [k \in DOMAIN know \cup DOMAIN c |->
            IF k \notin DOMAIN c THEN know[k]
            ELSE IF k \in DOMAIN know THEN UpdateEntry(know[k], c[k])
            ELSE c[k]]

\* an entry whose wins are merged while its trials stay as they were
MergeWinsOnly(prev, v) ==
    [win |-> ((prev.win + v.win) * 5 + prev.win * 5) \div 10,
     trials |-> prev.trials]

\* the new entry of a key present in both ledgers (merge_knowledge, lines 181-188):
\* int(win * 0.5 + prev["win"] * 0.5) with win = prev["win"] + v["win"]
MergeEntry(prev, v) ==
    [win |-> ((prev.win + v.win) * 5 + prev.win * 5) \div 10,
     trials |-> ((prev.trials + v.trials) * 5 + prev.trials * 5) \div 10]

\* self.knowledge after merge_knowledge(remote_knowledge)
MergeKnowledge(know, remote) ==
    [k \in DOMAIN know \cup DOMAIN remote |->
        IF k \notin DOMAIN remote THEN know[k]
        ELSE IF k \in DOMAIN know THEN MergeEntry(know[k], remote[k])
        ELSE remote[k]]

\* the counters stay within the model's cap
WithinCap(know) == \A k \in DOMAIN know : know[k].trials <= MaxCount

\* The remote ledgers a peer may hand over (hive.share_meta_knowledge)
KeyQuietA == <<"A", 0, 0, 0>>

KeyQuietB == <<"B", 0, 0, 0>>

RemoteLedgers ==
    { (KeyQuietA :> [win |-> 2, trials |-> 2]),
      (KeyQuietA :> [win |-> 1, trials |-> 4]) @@ (KeyQuietB :> [win |-> 3, trials |-> 4]),
      (KeyQuietB :> [win |-> 0, trials |-> 1]) }

\* The histories a caller may hand to update()
Histories == SeqsUpTo(ScoredRecords, MaxHistory)

\* The readings of one observation, as the items of the env dict in the order
\* they were inserted: (name, value in hundredths). The two sets of
\* NearReadings differ by less than 0.05 in each reading; FarReadings is 0.3
\* away from them and is only looked up.
NearReadings ==
    { {<<"noise", 4>>, <<"pressure", 0>>, <<"volume", 0>>},
      {<<"noise", 0>>, <<"pressure", 4>>, <<"volume", 1>>} }

FarReadings == { {<<"noise", 30>>, <<"pressure", 0>>, <<"volume", 0>>} }

\* every insertion order of the readings of the observations of Sets
OrdersOf(Sets) ==
    UNION { {m \in [1..3 -> S] : \A i, j \in 1..3 : m[i] = m[j] => i = j} :
            S \in Sets }

InputMaps == OrdersOf(NearReadings \cup FarReadings)

\* the dict env.get() reads (lines 59-61): a reading is found by its name, at
\* whatever position it was inserted
DictOf(items) ==
    [name \in {items[i][1] : i \in DOMAIN items} |->
        items[CHOOSE i \in DOMAIN items : items[i][1] = name][2]]

\* the records of the observations, each with the engine that ran
ObservedRecords ==
    [engine : {"A"}, env : {DictOf(m) : m \in OrdersOf(NearReadings)}, score : {1}]
        \cup [engine : {"B"}, env : {DictOf(<<<<"volume", 1>>, <<"noise", 0>>, <<"pressure", 4>>>>)},
              score : {1}]

\* The histories of observations a caller may hand to update()
KeyHistories == [1..MaxKeyHistory -> ObservedRecords]

LedgerConstructed ==
    /\ knowledge = EmptyLedger
    /\ memory = <<>>
    /\ ledgerOp = "init"
    /\ ledgerArg = <<>>

\* log_event(...): append an event to self.memory (and save it)
LogEvent(ev) ==
    /\ Len(memory) < MaxMemory
    /\ memory' = Append(memory, ev)
    /\ ledgerOp' = "log_event"
    /\ ledgerArg' = <<ev>>
    /\ UNCHANGED <<knowledge, exceptLedger>>

\* update(history) called with a history of the caller
UpdateCall(history) ==
    /\ LET new == Update(knowledge, history)
       IN  WithinCap(new) /\ knowledge' = new
    /\ ledgerOp' = "update"
    /\ ledgerArg' = history
    /\ UNCHANGED <<memory, exceptLedger>>

\* meta_loop(): update(self.memory), then evolve(), which returns at once
\* while len(self.memory) < 200 (line 133)
MetaLoop ==
    /\ Len(memory) < 200
    /\ LET new == Update(knowledge, memory)
       IN  WithinCap(new) /\ knowledge' = new
    /\ ledgerOp' = "meta_loop"
    /\ ledgerArg' = memory
    /\ UNCHANGED <<memory, exceptLedger>>

\* merge_knowledge(remote_knowledge)
MergeCall(remote) ==
    /\ LET new == MergeKnowledge(knowledge, remote)
       IN  WithinCap(new) /\ knowledge' = new
    /\ ledgerOp' = "merge_knowledge"
    /\ ledgerArg' = remote
    /\ UNCHANGED <<memory, exceptLedger>>

LedgerNext ==
    \/ \E ev \in Events : LogEvent(ev)
    \/ \E h \in Histories : UpdateCall(h)
    \/ MetaLoop
    \/ \E r \in RemoteLedgers : MergeCall(r)

-----------------------------------------------------------------------------
(* MetaGuardian                                                            *)
(* max_drawdown is in percent, margin levels in hundredths, drawdown       *)
(* entries in 1/100000 (exact for the capitals of the model).              *)

\* load_config: the fallback when no config file exists (lines 18-28)
DefaultConfig ==
    [max_drawdown |-> 20, max_open_trades |-> 20, max_grid_size |-> 7,
     min_equity_margin |-> 25, meta_tune |-> TRUE]

\* load_config: a config file, here the one of the spec's scenario
ScenarioConfig ==
    [max_drawdown |-> 20, max_open_trades |-> 5, max_grid_size |-> 4,
     min_equity_margin |-> 25, meta_tune |-> TRUE]

\* load_config: a config file whose max_grid_size lies below the floor of
\* auto_tune_parameters
LowGridConfig == [DefaultConfig EXCEPT !.max_grid_size = 2]

\* auto_tune_parameters: max(3, old - 1)
GridSizeFloor == 3

\* What the gie_system adapters may return in a cycle: total capital, equity,
\* the number of open trades, the sizes of the open grids, the margin level
\* and the grids (by position) for which predict_trend reports a runaway risk.
SystemStates ==
    [capital : {0, 100}, equity : {70, 83, 100}, open_trades : {5, 6, 21},
     grids : {<<>>, <<4, 8>>}, margin_level : {20, 30}, runaway : {{}, {1}}]

\* the result of a sequence of steps: the events so far, and whether no
\* exception was raised
Then(r1, r2) == IF r1.ok THEN [ev |-> r1.ev \o r2.ev, ok |-> r2.ok] ELSE r1

Done(events) == [ev |-> events, ok |-> TRUE]

Raised(events) == [ev |-> events, ok |-> FALSE]

\* dd = (capital - equity) / capital compared with a limit given in percent * scale / 100
DrawdownAbove(sys, limitTimes10) == (sys.capital - sys.equity) * 1000 > limitTimes10 * sys.capital

\* entry["drawdown"], in 1/100000
DrawdownOf(sys) == ((sys.capital - sys.equity) * 100000) \div sys.capital

\* check_drawdown (lines 43-49): the division raises ZeroDivisionError on capital 0
CheckDrawdown(sys, cfg) ==
    IF sys.capital = 0 THEN Raised(<<"check_drawdown">>)
    ELSE IF DrawdownAbove(sys, cfg.max_drawdown * 10)
         THEN Done(<<"check_drawdown", "reduce_exposure">>)
         ELSE Done(<<"check_drawdown">>)

\* a check_open_trades that also acts when the number of trades is at the limit
CheckOpenTradesGe(sys, cfg) ==
    IF sys.open_trades >= cfg.max_open_trades
    THEN Done(<<"check_open_trades", "limit_open_trades">>)
    ELSE Done(<<"check_open_trades">>)

\* check_open_trades (lines 51-55) with handle_overtrading (lines 81-83)
CheckOpenTrades(sys, cfg) ==
    IF sys.open_trades > cfg.max_open_trades
    THEN Done(<<"check_open_trades", "limit_open_trades">>)
    ELSE Done(<<"check_open_trades">>)

\* the loop of check_grid_risk over the grids (lines 57-61)
RECURSIVE GridLoop(_, _)
GridLoop(grids, cfg) ==
    IF grids = <<>> THEN <<>>
    ELSE (IF Head(grids) > cfg.max_grid_size
          THEN <<"close_riskiest_grid_positions">> ELSE <<>>)
         \o GridLoop(Tail(grids), cfg)

CheckGridRisk(sys, cfg) == Done(<<"check_grid_risk">> \o GridLoop(sys.grids, cfg))

\* check_equity_margin (lines 63-67) with handle_margin_risk (lines 89-91)
CheckEquityMargin(sys, cfg) ==
    IF sys.margin_level < cfg.min_equity_margin
    THEN Done(<<"check_equity_margin", "emergency_margin_action">>)
    ELSE Done(<<"check_equity_margin">>)

\* the loop of predict_risk over the grids (lines 69-75)
RECURSIVE PredictLoop(_, _, _)
PredictLoop(grids, i, runaway) ==
    IF i > Len(grids) THEN <<>>
    ELSE (IF i \in runaway THEN <<"adapt_grid_on_trend_risk">> ELSE <<>>)
         \o PredictLoop(grids, i + 1, runaway)

PredictRisk(sys) == Done(<<"predict_risk">> \o PredictLoop(sys.grids, 1, sys.runaway))

\* the body of the try block of monitor_all up to predict_risk (lines 32-37)
Checks(sys, cfg) ==
    Then(CheckDrawdown(sys, cfg),
    Then(CheckOpenTrades(sys, cfg),
    Then(CheckGridRisk(sys, cfg),
    Then(CheckEquityMargin(sys, cfg),
         PredictRisk(sys)))))

\* the entry meta_reflection appends (lines 99-106)
EntryOf(sys) ==
    [equity |-> sys.equity, drawdown |-> DrawdownOf(sys),
     margin_level |-> sys.margin_level, open_trades |-> sys.open_trades]

\* auto_tune_parameters (lines 111-116): entry.drawdown > max_drawdown * 0.8
AutoTune(cfg, sys) ==
    IF DrawdownAbove(sys, cfg.max_drawdown * 8)
    THEN [cfg EXCEPT !.max_grid_size = Max2(GridSizeFloor, cfg.max_grid_size - 1)]
    ELSE cfg

\* the guardian's last word on margin after a cycle with these events
EmergencyAfter(events, before) ==
    IF "emergency_margin_action" \in Range(events) THEN TRUE
    ELSE IF "check_equity_margin" \in Range(events) THEN FALSE
    ELSE before

NoEntry == [equity |-> 0, drawdown |-> 0, margin_level |-> 0, open_trades |-> 0]

NoSystem ==
    [capital |-> 0, equity |-> 0, open_trades |-> 0, grids |-> <<>>,
     margin_level |-> 0, runaway |-> {}]

\* MetaGuardian.__init__ with the config load_config returned
GuardianConstructed(cfg) ==
    /\ config = cfg
    /\ meta_log_len = 0
    /\ meta_log_last = NoEntry
    /\ last_snapshot = 0
    /\ gie_system = NoSystem
    /\ guardianTrace = <<>>
    /\ emergency = FALSE

\* monitor_all (lines 30-41), one whole cycle against the system state sys:
\* the checks, then meta_reflection and save_snapshot; an exception anywhere
\* in the try block ends the cycle (it is caught and logged)
MonitorAll(sys) ==
    LET r == Checks(sys, config)
    IN  /\ meta_log_len < MaxMetaLog
        /\ gie_system' = sys
        /\ emergency' = EmergencyAfter(r.ev, emergency)
        /\ IF r.ok
           THEN /\ guardianTrace' = r.ev \o <<"meta_reflection", "save_snapshot">>
                /\ meta_log_len' = meta_log_len + 1
                /\ meta_log_last' = EntryOf(sys)
                /\ config' = IF config.meta_tune THEN AutoTune(config, sys) ELSE config
                /\ last_snapshot' = meta_log_len + 1
           ELSE /\ guardianTrace' = r.ev
                /\ UNCHANGED <<meta_log_len, meta_log_last, config, last_snapshot>>
        /\ UNCHANGED exceptGuardian

GuardianInit ==
    \E cfg \in {DefaultConfig, ScenarioConfig} : GuardianConstructed(cfg)

-----------------------------------------------------------------------------
(* GieHive: the population                                                 *)
(* The hive reads of an agent its hunger and satisfaction (share_knowledge)*)
(* and what get_performance_metric() returns; it calls act() and clone().  *)
(* Hunger and satisfaction are in thousandths.                             *)

\* meta_reflection: clone while len(self.agents) < 20
CloneCeiling == 20

\* meta_reflection: remove while len(self.agents) > 5
RetireFloor == 5

\* __init__: n_agents=3
DefaultAgents == 3

\* a freshly constructed agent (GieMind.__init__: hunger 1.0, satisfaction 0.1)
NewAgent == [hunger |-> 1000, satisfaction |-> 100]

\* the places tried for the agent that stands out: none, the first agent, the
\* last agent
Places == {"none", "first", "last"}

PlaceIn(place, n) == IF place = "first" THEN 1 ELSE IF place = "last" THEN n ELSE 0

\* What get_performance_metric() returns for n agents: every agent 1, but 2
\* for the agent at place hi and 0 for the agent at place lo
PerfVector(n, hi, lo) ==
    [i \in 1..n |-> IF i = PlaceIn(hi, n) THEN 2 ELSE IF i = PlaceIn(lo, n) THEN 0 ELSE 1]

\* the indices tried by remove_agent and clone_agent: the first agent, and
\* one past any population
IndexChoices == {0, MaxAgents}

\* performances.index(max(performances)), from 0
IndexOfMax(perf) ==
    (CHOOSE i \in 1..Len(perf) :
        /\ \A j \in 1..Len(perf) : perf[j] <= perf[i]
        /\ \A j \in 1..(i - 1) : perf[j] < perf[i]) - 1

\* performances.index(min(performances)), from 0
IndexOfMin(perf) ==
    (CHOOSE i \in 1..Len(perf) :
        /\ \A j \in 1..Len(perf) : perf[j] >= perf[i]
        /\ \A j \in 1..(i - 1) : perf[j] > perf[i]) - 1

\* remove_agent (lines 67-70): del self.agents[idx] when 0 <= idx < len
RemoveAt(ags, idx) ==
    IF 0 <= idx /\ idx < Len(ags)
    THEN SubSeq(ags, 1, idx) \o SubSeq(ags, idx + 2, Len(ags))
    ELSE ags

RECURSIVE SumField(_, _)
SumField(ags, f) == IF ags = <<>> THEN 0 ELSE Head(ags)[f] + SumField(Tail(ags), f)

\* share_knowledge (lines 72-79): every agent moves half way to the mean
ShareKnowledge(ags) ==
    LET base_hunger == SumField(ags, "hunger") \div Len(ags)
        base_satisfaction == SumField(ags, "satisfaction") \div Len(ags)
    IN  [i \in 1..Len(ags) |->
            [hunger |-> (ags[i].hunger + base_hunger) \div 2,
             satisfaction |-> (ags[i].satisfaction + base_satisfaction) \div 2]]

\* the clone step of meta_reflection (lines 88-89, clone_agent lines 94-97)
AfterClone(ags, best_idx) ==
    IF Len(ags) < CloneCeiling THEN Append(ags, ags[best_idx + 1]) ELSE ags

\* the removal step of meta_reflection (lines 90-91)
AfterRemove(ags, worst_idx) ==
    IF Len(ags) > RetireFloor THEN RemoveAt(ags, worst_idx) ELSE ags

\* meta_reflection (lines 82-92) on a non-empty population
Reflected(ags, perf) ==
    ShareKnowledge(AfterRemove(AfterClone(ags, IndexOfMax(perf)), IndexOfMin(perf)))

\* GieHive.__init__ with n agents
HiveConstructed(n) ==
    /\ agents = [i \in 1..n |-> NewAgent]
    /\ hivePc = "idle"
    /\ hiveCycle = 0
    /\ n_cycles = 0
    /\ hiveIdx = 0
    /\ acted = 0
    /\ hiveError = "none"
    /\ cloned = -1
    /\ removed = -1

HiveInit == HiveConstructed(DefaultAgents)

\* a call other than run_all: what the last run_all left behind is forgotten
NoRun ==
    /\ hivePc' = "idle"
    /\ hiveCycle' = 0
    /\ n_cycles' = 0
    /\ hiveIdx' = 0
    /\ acted' = 0

\* add_agent (lines 60-65)
AddAgent ==
    /\ hivePc = "idle"
    /\ Len(agents) < MaxAgents
    /\ agents' = Append(agents, NewAgent)
    /\ hiveError' = "none"
    /\ NoRun
    /\ cloned' = -1
    /\ removed' = -1
    /\ UNCHANGED exceptHive

\* remove_agent(idx) (lines 67-70): an index out of range is ignored
RemoveAgent(idx) ==
    /\ hivePc = "idle"
    /\ agents' = RemoveAt(agents, idx)
    /\ hiveError' = "none"
    /\ NoRun
    /\ cloned' = -1
    /\ removed' = -1
    /\ UNCHANGED exceptHive

\* clone_agent(idx) (lines 94-98): self.agents[idx] raises IndexError out of range
CloneAgent(idx) ==
    /\ hivePc = "idle"
    /\ Len(agents) < MaxAgents
    /\ IF idx < Len(agents)
       THEN agents' = Append(agents, agents[idx + 1]) /\ hiveError' = "none"
       ELSE agents' = agents /\ hiveError' = "IndexError"
    /\ NoRun
    /\ cloned' = -1
    /\ removed' = -1
    /\ UNCHANGED exceptHive

\* the effect of meta_reflection on the population: max() of no performances
\* raises ValueError
ReflectStep(perf) ==
    IF agents = <<>>
    THEN /\ hiveError' = "ValueError"
         /\ UNCHANGED <<agents, cloned, removed>>
    ELSE /\ agents' = Reflected(agents, perf)
         /\ cloned' = IF Len(agents) < CloneCeiling THEN IndexOfMax(perf) ELSE -1
         /\ removed' = IF Len(AfterClone(agents, IndexOfMax(perf))) > RetireFloor
                       THEN IndexOfMin(perf) ELSE -1
         /\ hiveError' = "none"

\* meta_reflection (lines 82-92) called on its own
HiveMetaReflection(hi, lo) ==
    /\ hivePc = "idle"
    /\ ReflectStep(PerfVector(Len(agents), hi, lo))
    /\ NoRun
    /\ UNCHANGED exceptHive

\* run_all(n) (lines 51-53): the first cycle starts
RunAll(n) ==
    /\ hivePc = "idle"
    /\ hivePc' = IF agents = <<>> THEN "reflecting" ELSE "acting"
    /\ hiveCycle' = 1
    /\ n_cycles' = n
    /\ hiveIdx' = 0
    /\ acted' = 0
    /\ hiveError' = "none"
    /\ cloned' = -1
    /\ removed' = -1
    /\ UNCHANGED agents
    /\ UNCHANGED exceptHive

\* run_all, lines 56-57: agent.act() of every agent in turn; raisesAt names
\* the agent whose act() raises, and then the exception leaves run_all
\* (nothing catches it) before the agents after it have acted
Act(raisesAt) ==
    /\ hivePc = "acting"
    /\ IF PlaceIn(raisesAt, Len(agents)) # 0
       THEN /\ hivePc' = "idle"
            /\ hiveError' = "act"
            /\ hiveIdx' = PlaceIn(raisesAt, Len(agents))
            /\ acted' = PlaceIn(raisesAt, Len(agents))
       ELSE /\ hivePc' = "reflecting"
            /\ hiveError' = hiveError
            /\ hiveIdx' = Len(agents)
            /\ acted' = Len(agents)
    /\ UNCHANGED <<agents, hiveCycle, n_cycles, cloned, removed>>
    /\ UNCHANGED exceptHive

\* run_all, line 58: meta_reflection() at the end of a cycle, then the next
\* cycle or the end of run_all
RunAllReflect(hi, lo) ==
    /\ hivePc = "reflecting"
    /\ ReflectStep(PerfVector(Len(agents), hi, lo))
    /\ IF agents # <<>> /\ hiveCycle < n_cycles
       THEN hivePc' = "acting" /\ hiveCycle' = hiveCycle + 1
       ELSE hivePc' = "idle" /\ hiveCycle' = hiveCycle
    /\ UNCHANGED <<n_cycles, hiveIdx, acted>>
    /\ UNCHANGED exceptHive

HiveNext ==
    \/ AddAgent
    \/ \E idx \in IndexChoices : RemoveAgent(idx)
    \/ \E idx \in IndexChoices : CloneAgent(idx)
    \/ \E hi \in Places, lo \in Places : HiveMetaReflection(hi, lo)
    \/ \E n \in 1..MaxCycles : RunAll(n)
    \/ \E raisesAt \in Places : Act(raisesAt)
    \/ \E hi \in Places, lo \in Places : RunAllReflect(hi, lo)

-----------------------------------------------------------------------------
(* GieMind: the controller                                                 *)
(* hunger, satisfaction and curiosity are in hundredths.                   *)

\* the engines of the controller (imports, lines 17-19)
MindEngines == <<"OstroznyEngine", "RefleksyjnyEngine", "RyzykantEngine">>

\* __init__, line 46: {"win": 0, "trials": 1} for every engine
DefaultStats == [e \in Range(MindEngines) |-> [win |-> 0, trials |-> 1]]

\* load_stats: a stats file written by an earlier run
LoadedStats ==
    [DefaultStats EXCEPT !["RefleksyjnyEngine"] = [win |-> 1, trials |-> 2]]

NoStatsFile == <<>>

\* __init__, lines 47-51
hunger_threshold == 80

satisfaction_increment == 10

hunger_increment == 10

curiosity_increment == 5

\* suggest: abs(n - noise) <= 0.2, in tenths
Tolerance == 2

\* suggest: stats["trials"] > 3
MinTrials == 3

Abs(x) == IF x < 0 THEN -x ELSE x

\* the pairs of tenths a, b with |a - b| = 2 for which the floats give
\* abs(a/10 - b/10) = 0.20000000000000007 > 0.2
FloatGaps == {{6, 8}, {7, 9}}

\* abs(n - noise) <= 0.2 (line 89) on floats with one decimal between 0.0 and 1.0
WithinTolerance(a, b) == Abs(a - b) <= Tolerance /\ {a, b} \notin FloatGaps

\* suggest (meta_reflection.py, lines 84-92): the keys of the candidates
Candidates(know, env) ==
    LET noise == Round1(Get(env, "noise", 0))
        pressure == Round1(Get(env, "pressure", 0))
        volume == Round1(Get(env, "volume", 0))
    IN  {k \in DOMAIN know :
            /\ WithinTolerance(k[2], noise)
            /\ WithinTolerance(k[3], pressure)
            /\ WithinTolerance(k[4], volume)
            /\ know[k].trials > MinTrials}

\* suggest (meta_reflection.py, lines 93-99): the engines it may return, by
\* exploration or by exploitation; "None" stands for None
SuggestResults(know, env) ==
    IF Candidates(know, env) = {} THEN {"None"}
    ELSE {k[1] : k \in Candidates(know, env)}

\* read_environment (lines 80-86): the readings, keyed by sensor class name
MindEnvs ==
    {[NoiseSensor |-> 0, PressureSensor |-> 0, VolumeSensor |-> 0],
     [NoiseSensor |-> 30, PressureSensor |-> 0, VolumeSensor |-> 0]}

\* get_effectiveness (lines 126-128) as a fraction: numerator and denominator
EffNum(stat) == IF stat.trials # 0 THEN stat.win ELSE 0

EffDen(stat) == IF stat.trials # 0 THEN stat.trials ELSE 1

EffLess(a, b) == EffNum(a) * EffDen(b) < EffNum(b) * EffDen(a)

\* max(self.engines, key=get_effectiveness): the first engine of the highest
\* effectiveness
BestEngine(st) ==
    MindEngines[CHOOSE i \in 1..Len(MindEngines) :
        /\ \A j \in 1..Len(MindEngines) : ~EffLess(st[MindEngines[i]], st[MindEngines[j]])
        /\ \A j \in 1..(i - 1) : EffLess(st[MindEngines[j]], st[MindEngines[i]])]

\* choose_engine (lines 119-124): the best engine when suggest returned an
\* engine, and None (the function falls off its end) when it returned None
ChooseEngine(st, suggested) == IF suggested # "None" THEN BestEngine(st) ELSE "None"

\* random.random() < effectiveness (line 150): the outcomes that can happen
SuccessOutcomes(stat) ==
    {b \in BOOLEAN : IF b THEN EffNum(stat) > 0 ELSE EffNum(stat) < EffDen(stat)}

\* receive_feedback, lines 131-134
StatsAfter(st, name, success) ==
    [st EXCEPT ![name] = [win |-> @.win + (IF success THEN 1 ELSE 0),
                          trials |-> @.trials + 1]]

\* update_internal_state, lines 89-94 (reward is 1 or 0)
SatisfactionAfter(success) ==
    IF success THEN Min2(100, satisfaction + satisfaction_increment) ELSE satisfaction

HungerAfter(success) ==
    IF success THEN Max2(0, hunger - hunger_increment) ELSE Min2(100, hunger + 2)

CuriosityAfter(success) ==
    IF success THEN curiosity ELSE Min2(100, curiosity + curiosity_increment)

\* update_internal_state, lines 99-101: self.curiosity_threshold is never set,
\* so evaluating it raises AttributeError; a high satisfaction short-circuits
\* to self.evolver, whose StrategyEvolver() lacks its arguments (TypeError)
InternalStateError(newSatisfaction) ==
    IF newSatisfaction > hunger_threshold THEN "TypeError" ELSE "AttributeError"

\* GieMind.__init__ with the stats load_stats found
MindConstructed(st) ==
    /\ stats = st
    /\ saved_stats = NoStatsFile
    /\ hunger = 100
    /\ satisfaction = 10
    /\ curiosity = 80
    /\ lastRun = [self_steps |-> 0, suggested |-> "None", chosen |-> "None", error |-> "none"]

MindInit == MindConstructed(DefaultStats)

\* run(self_steps) with self_steps = 0 (lines 143-154): no step; each of the
\* three rounds saves the stats and calls clone_self
RunNoStep ==
    /\ saved_stats' = stats
    /\ lastRun' = [self_steps |-> 0, suggested |-> "None", chosen |-> "None", error |-> "none"]
    /\ UNCHANGED <<stats, hunger, satisfaction, curiosity>>
    /\ UNCHANGED exceptMind

\* run(self_steps) with self_steps >= 1, no engine chosen: choose_engine
\* returns None and get_effectiveness("NoneType") raises KeyError (line 150)
RunNoEngine(self_steps, env) ==
    /\ ChooseEngine(stats, "None") = "None"
    /\ "None" \in SuggestResults(knowledge, env)
    /\ lastRun' = [self_steps |-> self_steps, suggested |-> "None", chosen |-> "None",
                   error |-> "KeyError"]
    /\ UNCHANGED <<stats, saved_stats, hunger, satisfaction, curiosity>>
    /\ UNCHANGED exceptMind

\* run(self_steps) with self_steps >= 1, an engine chosen: the first step
\* draws its success and calls receive_feedback (lines 130-136), which counts
\* the trial, updates the internal state and then raises inside
\* update_internal_state; save_stats is not reached and run ends there
RunDispatch(self_steps, env, suggested, success) ==
    LET engine == ChooseEngine(stats, suggested)
    IN  /\ suggested \in SuggestResults(knowledge, env)
        /\ engine # "None"
        /\ success \in SuccessOutcomes(stats[engine])
        /\ stats[engine].trials < MaxMindTrials
        /\ stats' = StatsAfter(stats, engine, success)
        /\ satisfaction' = SatisfactionAfter(success)
        /\ hunger' = HungerAfter(success)
        /\ curiosity' = CuriosityAfter(success)
        /\ lastRun' = [self_steps |-> self_steps, suggested |-> suggested, chosen |-> engine,
                       error |-> InternalStateError(SatisfactionAfter(success))]
        /\ UNCHANGED saved_stats
        /\ UNCHANGED exceptMind

\* the engines whose outcomes are reported to receive_feedback directly
FeedbackEngines == {MindEngines[1]}

\* receive_feedback(engine, success) (lines 130-136): the outcome is counted
\* and the internal state updated; update_internal_state then raises, so
\* save_stats is not reached
FeedbackCall(engine, success) ==
    /\ stats[engine].trials < MaxMindTrials
    /\ stats' = StatsAfter(stats, engine, success)
    /\ satisfaction' = SatisfactionAfter(success)
    /\ hunger' = HungerAfter(success)
    /\ curiosity' = CuriosityAfter(success)
    /\ UNCHANGED <<saved_stats, lastRun>>
    /\ UNCHANGED exceptMind

\* the engine names suggest may return
Suggestable == Engines \cup Range(MindEngines) \cup {"None"}

MindNext ==
    \/ RunNoStep
    \/ \E n \in 1..MaxSteps, env \in MindEnvs : RunNoEngine(n, env)
    \/ \E n \in 1..MaxSteps, env \in MindEnvs, g \in Suggestable, b \in BOOLEAN :
           RunDispatch(n, env, g, b)

\* What the GieMind adapters return to the guardian (lines 158-177, 194-196):
\* get_margin_level is equity / (equity / 5000)
MindSystem ==
    [capital |-> 100000, equity |-> 98765, open_trades |-> 0, grids |-> <<>>,
     margin_level |-> 500000, runaway |-> {}]

\* load_config: a config file whose margin floor lies above the margin level
\* the adapters return
StrictConfig == [DefaultConfig EXCEPT !.min_equity_margin = 600000]

-----------------------------------------------------------------------------
(* MetaReflection.suggest on its own                                       *)
(* The ledger is given as list(self.knowledge.items()): suggest iterates   *)
(* over the dict in insertion order, and max() keeps the first maximum.    *)

\* the counters an entry may hold
QueryStats ==
    {[win |-> 8, trials |-> 10], [win |-> 2, trials |-> 10], [win |-> 2, trials |-> 4],
     [win |-> 4, trials |-> 8], [win |-> 3, trials |-> 3]}

\* the items of a ledger: key (engine, n, p, v) and counters
QueryEntries ==
    {[engine |-> e, n |-> n, p |-> 0, v |-> 0, win |-> s.win, trials |-> s.trials] :
        e \in Engines, n \in {0, 6, 8}, s \in QueryStats}

ItemKey(item) == <<item.engine, item.n, item.p, item.v>>

\* the ledgers: no item, one item, or two items of different keys
ItemLists ==
    {<<>>} \cup {<<a>> : a \in QueryEntries}
    \cup {pair \in QueryEntries \X QueryEntries : ItemKey(pair[1]) # ItemKey(pair[2])}

\* the query maps, in hundredths; a missing signal is read as 0
QueryMaps ==
    {[noise |-> 0, pressure |-> 0, volume |-> 0],
     [noise |-> 58, pressure |-> 0, volume |-> 0],
     [pressure |-> 4]}

\* self.curiosity, in hundredths
CuriosityLevels == {0, 50, 100}

\* suggest, lines 84-92: the candidates, in the order of the items
RECURSIVE CandidateList(_, _)
CandidateList(items, env) ==
    IF items = <<>> THEN <<>>
    ELSE LET it == Head(items)
         IN  (IF /\ WithinTolerance(it.n, Round1(Get(env, "noise", 0)))
                 /\ WithinTolerance(it.p, Round1(Get(env, "pressure", 0)))
                 /\ WithinTolerance(it.v, Round1(Get(env, "volume", 0)))
                 /\ it.trials > MinTrials
              THEN <<it>> ELSE <<>>)
             \o CandidateList(Tail(items), env)

\* eff = win / max(1, trials) (line 91), compared as fractions
EffBelow(a, b) == a.win * Max2(1, b.trials) < b.win * Max2(1, a.trials)

\* max(candidates, key=lambda x: x[0]) (line 98): the first candidate of the
\* highest eff
FirstMax(cands) ==
    cands[CHOOSE i \in 1..Len(cands) :
        /\ \A j \in 1..Len(cands) : ~EffBelow(cands[i], cands[j])
        /\ \A j \in 1..(i - 1) : EffBelow(cands[j], cands[i])]

\* before any call of suggest
QueryConstructed ==
    /\ sugItems \in ItemLists
    /\ sugEnv \in QueryMaps
    /\ sugCuriosity \in CuriosityLevels
    /\ sugResult = "None"
    /\ sugBranch = "unset"

QueryIdle ==
    /\ sugItems = <<>>
    /\ sugEnv = [noise |-> 0, pressure |-> 0, volume |-> 0]
    /\ sugCuriosity = 50
    /\ sugResult = "None"
    /\ sugBranch = "unset"

\* suggest (lines 82-99) finding no candidate
SuggestNone ==
    /\ CandidateList(sugItems, sugEnv) = <<>>
    /\ sugResult' = "None"
    /\ sugBranch' = "none"
    /\ UNCHANGED <<sugItems, sugEnv, sugCuriosity>>
    /\ UNCHANGED exceptQuery

\* suggest (lines 93-96), random.random() < self.curiosity: a random candidate
SuggestExplore(pick) ==
    LET cands == CandidateList(sugItems, sugEnv)
    IN  /\ cands # <<>>
        /\ sugCuriosity > 0
        /\ pick \in 1..Len(cands)
        /\ sugResult' = cands[pick].engine
        /\ sugBranch' = "explore"
        /\ UNCHANGED <<sugItems, sugEnv, sugCuriosity>>
        /\ UNCHANGED exceptQuery

\* suggest (lines 97-98), random.random() >= self.curiosity: the best candidate
SuggestExploit ==
    LET cands == CandidateList(sugItems, sugEnv)
    IN  /\ cands # <<>>
        /\ sugCuriosity < 100
        /\ sugResult' = FirstMax(cands).engine
        /\ sugBranch' = "exploit"
        /\ UNCHANGED <<sugItems, sugEnv, sugCuriosity>>
        /\ UNCHANGED exceptQuery

QueryNext ==
    \/ SuggestNone
    \/ \E pick \in 1..2 : SuggestExplore(pick)
    \/ SuggestExploit

-----------------------------------------------------------------------------
(* The sensors (core/base_sensor.py, core/sensors/*.py)                    *)
(* hunger is in hundredths. A sensor is modelled by its buffer of raw      *)
(* values, its hunger, its growth_signal and the number of results it has  *)
(* appended to its history (adaptive_level is assigned once per such       *)
(* result, from the buffer and the hunger); arrived lists the raw values   *)
(* its reads have accepted, in arrival order.                              *)

\* the sensor classes: two of base_sensor.py and the four of core/sensors
SensorKinds ==
    {"NoiseSensor", "PressureSensor", "SuperNoiseSensor", "SuperPressureSensor",
     "SuperVolumeSensor", "SuperAggressiveSensor"}

\* the classes of base_sensor.py, whose _auto_log catches its exceptions
BaseKinds == {"NoiseSensor", "PressureSensor"}

\* the classes whose read never assigns self.hunger
NoHungerKinds == {"SuperAggressiveSensor"}

\* hunger += 0.1 / 0.14 / 0.11 on a read without anomaly
HungerStep(kind) ==
    CASE kind = "PressureSensor" -> 14
      [] kind = "SuperVolumeSensor" -> 11
      [] OTHER -> 10

\* hunger = max(0, hunger - 1) on an anomaly
HungerDrop == 100

\* growth_signal = hunger > 4.0 / 4.2 / 5 / 5.5
GrowthCeiling(kind) ==
    CASE kind = "NoiseSensor" -> 400
      [] kind = "PressureSensor" -> 420
      [] kind = "SuperVolumeSensor" -> 550
      [] OTHER -> 500

\* learning_rate in hundredths: 0.12 for SuperVolumeSensor, 0.1 otherwise
LearningRate(kind) == IF kind = "SuperVolumeSensor" THEN 12 ELSE 10

\* the windows tried
Windows == {2, 5}

\* the raw values tried
RawValues == {1, 9}

\* the forms of tick_data: None, {}, a dict without the sensor's key, and a
\* dict with the key and a raw value
Observations ==
    {[form |-> f, value |-> 0] : f \in {"None", "empty", "nokey"}}
    \cup {[form |-> "valid", value |-> x] : x \in RawValues}

RECURSIVE SumSeq(_)
SumSeq(s) == IF s = <<>> THEN 0 ELSE Head(s) + SumSeq(Tail(s))

RECURSIVE SumSquares(_)
SumSquares(s) == IF s = <<>> THEN 0 ELSE Head(s) * Head(s) + SumSquares(Tail(s))

\* n^2 times the variance of the buffer: np.std(buffer) is Sqrt(this) / n
ScaledVariance(buf) == Len(buf) * SumSquares(buf) - SumSeq(buf) * SumSeq(buf)

\* a * a > m and b * b < m for a, b >= 0, without forming the squares
SquareAbove(a, m) == a > 0 /\ a > m \div a

SquareBelow(b, m) == IF b = 0 THEN m > 0 ELSE b <= (m - 1) \div b

\* abs(x - mean) > adaptive_level * 2, with adaptive_level =
\* base_level + learning_rate * (std + hunger), base_level 1.0, learning_rate
\* 0.1 (base_sensor.py, lines 209-212): both sides times 250 n, which gives
\* 250 |n x - sum| - 500 n - h n / 2 > 50 Sqrt(n^2 variance)
SymmetricAnomaly(buf, x, h) ==
    LET n == Len(buf)
        lhs == 250 * Abs(n * x - SumSeq(buf)) - 500 * n - (h * n) \div 2
    IN  SquareAbove(lhs, 2500 * ScaledVariance(buf))

\* value > adaptive * 2 or value < adaptive * 0.5, with adaptive =
\* base 1.0 + learning_rate * (std + hunger) (pressure_sensor.py, lines 62-66;
\* volume_sensor.py, lines 56-59; at most 10 values, so recent_vol is std),
\* lr in hundredths: 1250 n x - 2500 n - lr h n / 4 > 25 lr Sqrt(n^2 variance),
\* or 5000 n x - 2500 n - lr h n / 4 < 25 lr Sqrt(n^2 variance)
OneSidedAnomaly(buf, x, h, lr) ==
    LET n == Len(buf)
        above == 1250 * n * x - 2500 * n - (lr * h * n) \div 4
        below == 5000 * n * x - 2500 * n - (lr * h * n) \div 4
        m == 625 * lr * lr * ScaledVariance(buf)
    IN  \/ SquareAbove(above, m)
        \/ below < 0
        \/ below >= 0 /\ SquareBelow(below, m)

\* the anomaly flags a read of x may give, buf being the buffer after the
\* append and h the hunger before the read. SuperNoiseSensor and
\* SuperAggressiveSensor judge price returns, spreads and times, which the
\* model does not carry: from three values on, either flag may come out.
AnomalyFlags(kind, buf, x, h) ==
    CASE kind \in BaseKinds -> {SymmetricAnomaly(buf, x, h)}
      [] kind \in {"SuperPressureSensor", "SuperVolumeSensor"} ->
            {OneSidedAnomaly(buf, x, h, LearningRate(kind))}
      [] OTHER -> IF Len(buf) >= 3 THEN BOOLEAN ELSE {FALSE}

\* a buffer that, once full, keeps what it holds and drops the new value
EvictNewest(buf, x, w) ==
    IF Len(buf) + 1 > w THEN buf ELSE Append(buf, x)

\* self.buffer.append(x); if len(self.buffer) > self.window: self.buffer.pop(0)
Buffered(buf, x, w) ==
    IF Len(buf) + 1 > w THEN Tail(Append(buf, x)) ELSE Append(buf, x)

\* what read returns for tick_data without the key: None (base_sensor.py),
\* the zero result of level "low" (SuperNoise/Pressure/VolumeSensor), {} for
\* SuperAggressiveSensor, whose tick_data.get raises AttributeError on None
MissingResult(kind, form) ==
    CASE kind \in BaseKinds -> "None"
      [] kind = "SuperAggressiveSensor" ->
            IF form = "None" THEN "AttributeError" ELSE "empty"
      [] OTHER -> "low"

\* how a read of a raw value ends: base_sensor.py returns the result (its
\* _auto_log catches); SuperNoise/Pressure/VolumeSensor's _auto_log passes
\* numpy scalars (np.bool_, np.int64) to json.dumps, which raises TypeError,
\* after buffer, hunger and history are updated; SuperAggressiveSensor
\* returns its dict
ValidResult(kind) ==
    IF kind \in {"SuperNoiseSensor", "SuperPressureSensor", "SuperVolumeSensor"}
    THEN "TypeError" ELSE "reading"

\* hunger after a read (e.g. base_sensor.py, lines 213-216)
HungerAfterRead(kind, h, anomaly) ==
    IF kind \in NoHungerKinds THEN h
    ELSE IF anomaly THEN Max2(0, h - HungerDrop) ELSE h + HungerStep(kind)

\* self.growth_signal after a read (line 217); SuperAggressiveSensor keeps
\* the False of BaseSensor.__init__
GrowthAfterRead(kind, h) ==
    IF kind \in NoHungerKinds THEN FALSE ELSE h > GrowthCeiling(kind)

\* hunger = 0 in __init__, but SuperAggressiveSensor(hunger=1.0)
InitialHunger(kind) == IF kind \in NoHungerKinds THEN 100 ELSE 0

\* a sensor after __init__
FreshSensor(kind) ==
    [live |-> TRUE, buffer |-> <<>>, hunger |-> InitialHunger(kind),
     growth_signal |-> FALSE, results |-> 0, arrived |-> <<>>, clones |-> 0]

NoSensor ==
    [live |-> FALSE, buffer |-> <<>>, hunger |-> 0,
     growth_signal |-> FALSE, results |-> 0, arrived |-> <<>>, clones |-> 0]

NoRead == [who |-> "nobody", form |-> "None", value |-> 0, result |-> "None",
           anomaly |-> FALSE, before |-> 0]

\* a sensor after read(tick_data) of a raw value x flagged anomaly
AfterRead(kind, w, s, x, anomaly) ==
    LET h == HungerAfterRead(kind, s.hunger, anomaly)
    IN  [s EXCEPT !.buffer = Buffered(s.buffer, x, w),
                  !.hunger = h,
                  !.growth_signal = GrowthAfterRead(kind, h),
                  !.results = IF kind \in NoHungerKinds THEN @ ELSE @ + 1,
                  !.arrived = Append(@, x)]

SensorsConstructed(kind, w) ==
    /\ sensorKind = kind
    /\ window = w
    /\ parent = FreshSensor(kind)
    /\ child = NoSensor
    /\ lastRead = NoRead

SensorsIdle == SensorsConstructed("NoiseSensor", 5)

\* the sensor named who
SensorOf(who) == IF who = "parent" THEN parent ELSE child

\* read(tick_data) of one sensor (e.g. base_sensor.py, lines 201-235), cap
\* bounding the raw values a sensor accepts
Read(who, obs, anomaly, cap) ==
    LET s == SensorOf(who)
        t == IF obs.form = "valid"
             THEN AfterRead(sensorKind, window, s, obs.value, anomaly) ELSE s
    IN  /\ s.live
        /\ obs.form = "valid" =>
              /\ Len(s.arrived) < cap
              /\ anomaly \in AnomalyFlags(sensorKind, Buffered(s.buffer, obs.value, window),
                                          obs.value, s.hunger)
        /\ obs.form # "valid" => anomaly = FALSE
        /\ IF who = "parent" THEN parent' = t /\ child' = child
                             ELSE child' = t /\ parent' = parent
        /\ lastRead' = [who |-> who, form |-> obs.form, value |-> obs.value,
                        result |-> IF obs.form = "valid" THEN ValidResult(sensorKind)
                                   ELSE MissingResult(sensorKind, obs.form),
                        anomaly |-> anomaly, before |-> s.hunger]
        /\ UNCHANGED <<sensorKind, window>>
        /\ UNCHANGED exceptSensors

\* clone() (base_sensor.py, lines 169-176; noise_sensor.py, lines 125-131):
\* the count goes up, then copy.deepcopy(self)
Clone ==
    /\ ~child.live
    /\ parent' = [parent EXCEPT !.clones = @ + 1]
    /\ child' = [parent EXCEPT !.clones = @ + 1]
    /\ lastRead' = NoRead
    /\ UNCHANGED <<sensorKind, window>>
    /\ UNCHANGED exceptSensors

\* autoclone() (base_sensor.py, lines 151-167): a new sensor of the class
Autoclone ==
    /\ ~child.live
    /\ sensorKind \in BaseKinds
    /\ parent' = [parent EXCEPT !.clones = @ + 1]
    /\ child' = FreshSensor(sensorKind)
    /\ lastRead' = NoRead
    /\ UNCHANGED <<sensorKind, window>>
    /\ UNCHANGED exceptSensors

\* one sensor fed observations
SensorNext ==
    \E obs \in Observations, anomaly \in BOOLEAN : Read("parent", obs, anomaly, MaxReads)

\* a sensor and its clone fed observations
CloneNext ==
    \/ \E who \in {"parent", "child"}, obs \in Observations, anomaly \in BOOLEAN :
           Read(who, obs, anomaly, MaxCloneReads)
    \/ Clone
    \/ Autoclone

-----------------------------------------------------------------------------
(* StrategyEvolver (core/strategy_evolver.py)                              *)

\* A key is a base name followed by the suffixes evolve put after it:
\* "A_1000_9999" is [base |-> "A", tags |-> <<1000, 9999>>].
BaseKey(name) == [base |-> name, tags |-> <<>>]

\* random.randint(1000, 9999): the two ends stand for the range
Suffixes == {1000, 9999}

\* f"{key}_{random.randint(1000,9999)}"
NewKey(key, suffix) == [base |-> key.base, tags |-> Append(key.tags, suffix)]

\* what evolve asks of an engine with hasattr: "mutating" has mutate,
\* "crossing" has crossover and no mutate, "plain" has neither
EngineKinds == {"plain", "mutating", "crossing"}

\* the engines dictionaries the evolver is constructed with
Populations == {<<BaseKey("A")>>, <<BaseKey("A"), BaseKey("B")>>}

\* the meta_reflection argument: None, or a MetaReflection (which has no
\* log_mutation)
Reflections == {"None", "MetaReflection"}

\* the arguments n and methods of evolve
EvolveCounts == {1, 2}

MethodSets == {{"mutate", "crossover", "clone"}, {"mutate"}}

NoCounts == [win |-> 0, trials |-> 0]

\* what is known of the last call while none has been made
NoEvolve == [born |-> <<>>, error |-> "none"]

\* d[k] = v on a dictionary
Put(d, k, v) == [x \in DOMAIN d \cup {k} |-> IF x = k THEN v ELSE d[x]]

\* win / max(1, trials) of a is below that of b (the hunger term of
\* get_weakest is the same for every key)
ScoreLess(a, b) == a.win * Max2(1, b.trials) < b.win * Max2(1, a.trials)

PositionOf(order, k) == CHOOSE i \in 1..Len(order) : order[i] = k

\* the number of keys sorted() puts before k: the lower scores, and of the
\* equal ones those inserted earlier
Ahead(st, order, k) ==
    Cardinality({j \in Range(order) :
        \/ ScoreLess(st[j], st[k])
        \/ ~ScoreLess(st[k], st[j]) /\ PositionOf(order, j) < PositionOf(order, k)})

\* get_weakest(n): sorted(scored, key=scored.get)[:n]
GetWeakest(st, order, n) ==
    [i \in 1..Min2(n, Len(order)) |-> CHOOSE k \in Range(order) : Ahead(st, order, k) = i - 1]

\* the branch of evolve taken for an engine
Branch(kind, methods) ==
    IF "mutate" \in methods /\ kind = "mutating" THEN "mutate"
    ELSE IF "crossover" \in methods /\ kind = "crossing" THEN "crossover"
    ELSE IF "clone" \in methods THEN "clone"
    ELSE "skip"

\* evolve, registration: the offspring is stored under the new key with zero
\* counters (an offspring offers what its parent offers), then the
\* mutation is logged, which a MetaReflection cannot do
Registered(run, key, suffix, reflection) ==
    LET new_key == NewKey(key, suffix)
    IN  [engines |-> Put(run.engines, new_key, run.engines[key]),
         stats   |-> Put(run.stats, new_key, NoCounts),
         order   |-> IF new_key \in Range(run.order) THEN run.order
                     ELSE Append(run.order, new_key),
         born    |-> Append(run.born, new_key),
         error   |-> IF reflection = "None" THEN "none" ELSE "AttributeError"]

\* evolve, one pass of its loop; random.choice of an empty list of partners
\* raises IndexError
EvolveOne(run, key, suffix, methods, reflection) ==
    LET branch == Branch(run.engines[key], methods)
    IN  IF run.error # "none" \/ branch = "skip" THEN run
        ELSE IF branch = "crossover" /\ DOMAIN run.engines = {key}
             THEN [run EXCEPT !.error = "IndexError"]
        ELSE Registered(run, key, suffix, reflection)

RECURSIVE EvolveFrom(_, _, _, _, _)
\* evolve, its loop over the weakest keys
EvolveFrom(run, keys, suffixes, methods, reflection) ==
    IF keys = <<>> THEN run
    ELSE EvolveFrom(EvolveOne(run, Head(keys), Head(suffixes), methods, reflection),
                    Tail(keys), Tail(suffixes), methods, reflection)

\* StrategyEvolver(engines, stats, meta_reflection): every engine of one kind,
\* every counter at zero
EvolverConstructed(keys, kind, reflection) ==
    /\ engines = [k \in Range(keys) |-> kind]
    /\ evolver_stats = [k \in Range(keys) |-> NoCounts]
    /\ key_order = keys
    /\ meta_reflection = reflection
    /\ evolved = NoEvolve

EvolverIdle == EvolverConstructed(<<BaseKey("A")>>, "plain", "None")

\* evolve(n, methods); suffixes are the numbers random.randint returns
Evolve(n, methods, suffixes) ==
    LET weakest == GetWeakest(evolver_stats, key_order, n)
        start == [engines |-> engines, stats |-> evolver_stats, order |-> key_order,
                  born |-> <<>>, error |-> "none"]
        run == EvolveFrom(start, weakest, suffixes, methods, meta_reflection)
    IN  /\ Len(key_order) + n <= MaxEngines
        /\ engines' = run.engines
        /\ evolver_stats' = run.stats
        /\ key_order' = run.order
        /\ evolved' = [born |-> run.born, error |-> run.error]
        /\ UNCHANGED meta_reflection
        /\ UNCHANGED exceptEvolver

\* the controller records an outcome in the stats it shares with the evolver
RecordOutcome(key, success) ==
    /\ key \in DOMAIN evolver_stats
    /\ evolver_stats[key].trials < MaxEngineTrials
    /\ evolver_stats' = [evolver_stats EXCEPT
           ![key] = [win |-> @.win + (IF success THEN 1 ELSE 0), trials |-> @.trials + 1]]
    /\ evolved' = NoEvolve
    /\ UNCHANGED <<engines, key_order, meta_reflection>>
    /\ UNCHANGED exceptEvolver

\* the first keep_best_n keys in insertion order, whatever their counters
KeptFirst(st, order, keep_best_n) ==
    {order[i] : i \in 1..Min2(keep_best_n, Len(order))}

\* the keys cleanup(keep_best_n) keeps: the first keep_best_n of the keys
\* sorted by win / max(1, trials), highest first (equal ones in insertion
\* order)
KeptKeys(st, order, keep_best_n) ==
    {k \in Range(order) :
        Cardinality({j \in Range(order) :
            \/ ScoreLess(st[k], st[j])
            \/ ~ScoreLess(st[j], st[k]) /\ PositionOf(order, j) < PositionOf(order, k)})
          < keep_best_n}

\* the values tried for keep_best_n
KeepChoices == {1, 2}

\* cleanup(keep_best_n): every engine outside the best keep_best_n is deleted
\* with its counters
Cleanup(keep_best_n) ==
    LET kept == KeptKeys(evolver_stats, key_order, keep_best_n)
    IN  /\ engines' = [k \in kept |-> engines[k]]
        /\ evolver_stats' = [k \in kept |-> evolver_stats[k]]
        /\ key_order' = SelectSeq(key_order, LAMBDA k : k \in kept)
        /\ evolved' = NoEvolve
        /\ UNCHANGED meta_reflection
        /\ UNCHANGED exceptEvolver

\* random.randint(10000, 99999) of dynamic_import_new_engines
ImportSuffix == 10000

\* f"{attr}_{random.randint(10000,99999)}"
ImportedKey(attr) == [base |-> attr, tags |-> <<ImportSuffix>>]

\* what os.listdir(engines_dir) meets: no such directory, or a directory
\* whose modules define the classes named (classes that offer neither
\* mutate nor crossover)
Directories == {[exists |-> FALSE, classes |-> {}],
                [exists |-> TRUE, classes |-> {}],
                [exists |-> TRUE, classes |-> {"C"}]}

\* dynamic_import_new_engines: every class found is instantiated and stored
\* under a new key with zero counters
Imported(dir) ==
    LET new_keys == {ImportedKey(attr) : attr \in dir.classes}
        fresh == new_keys \ Range(key_order)
    IN  [engines |-> [k \in DOMAIN engines \cup new_keys |->
                         IF k \in new_keys THEN "plain" ELSE engines[k]],
         stats   |-> [k \in DOMAIN evolver_stats \cup new_keys |->
                         IF k \in new_keys THEN NoCounts ELSE evolver_stats[k]],
         order   |-> IF fresh = {} THEN key_order
                     ELSE Append(key_order, CHOOSE k \in fresh : TRUE),
         born    |-> <<>>,
         error   |-> "none"]

\* the arguments full_cycle gives evolve and cleanup
CycleEvolveCount == 2

CycleKeepBest == 10

CycleMethods == {"mutate", "crossover", "clone"}

\* cleanup(keep_best_n) on the dictionaries a run of evolve left
CleanedUp(run, keep_best_n) ==
    LET kept == KeptKeys(run.stats, run.order, keep_best_n)
    IN  [run EXCEPT !.engines = [k \in kept |-> run.engines[k]],
                    !.stats = [k \in kept |-> run.stats[k]],
                    !.order = SelectSeq(run.order, LAMBDA k : k \in kept)]

\* full_cycle: the import, evolve(n=2) and cleanup(keep_best_n=10); a
\* missing directory raises before anything is done, and an exception of
\* evolve leaves cleanup out
FullCycle(dir, suffixes) ==
    /\ IF ~dir.exists
       THEN /\ evolved' = [born |-> <<>>, error |-> "FileNotFoundError"]
            /\ UNCHANGED <<engines, evolver_stats, key_order>>
       ELSE \E start \in {Imported(dir)} :
            \E weakest \in {GetWeakest(start.stats, start.order, CycleEvolveCount)} :
            \E run \in {EvolveFrom(start, weakest, suffixes, CycleMethods, meta_reflection)} :
            \E done \in {IF run.error = "none" THEN CleanedUp(run, CycleKeepBest) ELSE run} :
                /\ Len(done.order) <= MaxEngines
                /\ engines' = done.engines
                /\ evolver_stats' = done.stats
                /\ key_order' = done.order
                /\ evolved' = [born |-> done.born, error |-> done.error]
    /\ UNCHANGED meta_reflection
    /\ UNCHANGED exceptEvolver

\* the counters an engine has in the stats the evolver is constructed with
InitialCounts == {NoCounts, [win |-> 1, trials |-> 2], [win |-> 1, trials |-> 1]}

\* StrategyEvolver(engines, stats, meta_reflection) with stats that hold
\* counters for the keys of engines
EvolverGiven(keys, kind, reflection, counts) ==
    /\ engines = [k \in Range(keys) |-> kind]
    /\ evolver_stats = counts
    /\ key_order = keys
    /\ meta_reflection = reflection
    /\ evolved = NoEvolve

\* evolve, cleanup and full_cycle in any order
CycleNext ==
    \/ \E n \in EvolveCounts, methods \in MethodSets, suffixes \in Suffixes \X Suffixes :
           Evolve(n, methods, suffixes)
    \/ \E keep_best_n \in KeepChoices : Cleanup(keep_best_n)
    \/ \E dir \in Directories, suffixes \in Suffixes \X Suffixes :
           FullCycle(dir, suffixes)

\* every key evolve can make of the base names
RECURSIVE KeysOfDepth(_)
KeysOfDepth(d) ==
    IF d = 0 THEN {BaseKey("A"), BaseKey("B")}
    ELSE LET shorter == KeysOfDepth(d - 1)
         IN  shorter \cup {NewKey(k, s) : k \in shorter, s \in Suffixes}

EvolverKeys == KeysOfDepth(MaxEngines - 1)

EvolverNext ==
    \/ \E n \in EvolveCounts, methods \in MethodSets, suffixes \in Suffixes \X Suffixes :
           Evolve(n, methods, suffixes)
    \/ \E key \in EvolverKeys, success \in BOOLEAN : RecordOutcome(key, success)
    \/ \E keep_best_n \in KeepChoices : Cleanup(keep_best_n)

-----------------------------------------------------------------------------
(* BaseEngine: motivation (core/base_engine.py)                            *)
(* hunger and curiosity are in hundredths.                                 *)

\* the rewards tried
Rewards == {-1, 0, 1}

\* _adjust_motivation (lines 146-152): self.hunger
AdjustedHunger(h, reward) ==
    IF reward > 0 THEN Max2(0, h - 10) ELSE Min2(100, h + 5)

\* _adjust_motivation (lines 146-152): self.curiosity
AdjustedCuriosity(c, reward) ==
    IF reward > 0 THEN Min2(100, c + 5) ELSE Max2(0, c - 5)

\* BaseEngine.__init__ (no hive, no plugins)
EngineConstructed ==
    /\ engine_hunger = 50
    /\ engine_curiosity = 50
    /\ engine_reward = 0
    /\ engine_memory = 0
    /\ last_reward = "none"
    /\ clone_count = 0

EngineIdle == EngineConstructed

\* receive_feedback(reward) (lines 115-123)
ReceiveFeedback(reward) ==
    /\ engine_memory < MaxFeedbacks
    /\ engine_hunger' = AdjustedHunger(engine_hunger, reward)
    /\ engine_curiosity' = AdjustedCuriosity(engine_curiosity, reward)
    /\ engine_reward' = engine_reward + reward
    /\ engine_memory' = engine_memory + 1
    /\ last_reward' = reward
    /\ UNCHANGED clone_count
    /\ UNCHANGED exceptEngine

\* random.uniform(-0.1, 0.1): the two ends and the middle stand for the range
Drifts == {-10, 0, 10}

\* self.memory[-10:] is the whole memory while it holds at most this many
\* entries
ReflectWindow == 10

\* the fewest entries meta_reflect looks at
ReflectMinimum == 3

\* meta_reflect (lines 131-138): the mean of the last rewards is negative;
\* with at most ReflectWindow entries that is the sign of their sum, which
\* self.reward holds
NegativeMean == engine_memory >= ReflectMinimum /\ engine_reward < 0

\* self_improve (lines 141-142): min(1, x + random.uniform(-0.1, 0.1))
Improved(x, drift) == Min2(100, x + drift)

\* meta_reflect(), with the self_improve it calls (no plugins)
MetaReflect(curiosity_drift, hunger_drift) ==
    /\ engine_memory <= ReflectWindow
    /\ clone_count < MaxImproves
    /\ IF NegativeMean
       THEN /\ engine_curiosity' = Improved(engine_curiosity, curiosity_drift)
            /\ engine_hunger' = Improved(engine_hunger, hunger_drift)
            /\ clone_count' = clone_count + 1
       ELSE UNCHANGED <<engine_curiosity, engine_hunger, clone_count>>
    /\ UNCHANGED <<engine_reward, engine_memory, last_reward>>
    /\ UNCHANGED exceptEngine

EngineNext ==
    \/ \E reward \in Rewards : ReceiveFeedback(reward)
    \/ \E curiosity_drift \in Drifts, hunger_drift \in Drifts :
           MetaReflect(curiosity_drift, hunger_drift)

-----------------------------------------------------------------------------
(* GieMind.read_environment: the generators read by worker threads         *)
(* One NoiseSensor and one PressureSensor of window EnvWindow; the steps   *)
(* of a read are its statements, and the threads interleave between them.  *)

\* self.sensors
Generators == {1, 2}

KindOf(g) == IF g = 1 THEN "NoiseSensor" ELSE "PressureSensor"

\* self.window of the generators
EnvWindow == 2

\* mt5_tick: a noise and a pressure value
Ticks == [noise : RawValues, pressure : RawValues]

NoTick == [noise |-> 0, pressure |-> 0]

\* tick_data['noise'] / tick_data['pressure']
ValueFor(g, tick) == IF g = 1 THEN tick.noise ELSE tick.pressure

\* a buffer kept by the class, shared by all generators
ClassBuffer(g) == 1

\* self.buffer is an attribute of the instance (BaseSensor.__init__, line 98):
\* the generator whose buffer the read of generator g works on
BufferOwner(g) == g

\* a generator after __init__
FreshGenerator == [buffer |-> <<>>, hunger |-> 0, growth_signal |-> FALSE, results |-> 0]

\* the statements of read, in order
ReadSteps == <<"ready", "appended", "trimmed", "judged", "fed", "grown", "done">>

NextStep(pc) == ReadSteps[(CHOOSE i \in 1..Len(ReadSteps) : ReadSteps[i] = pc) + 1]

\* the generators after one statement of the read of generator g
StepGens(gens, g, pc, tick, anomaly) ==
    LET o == BufferOwner(g)
    IN  CASE pc = "ready" ->
                 [gens EXCEPT ![o].buffer = Append(@, ValueFor(g, tick))]
          [] pc = "appended" ->
                 [gens EXCEPT ![o].buffer = IF Len(@) > EnvWindow THEN Tail(@) ELSE @]
          [] pc = "judged" ->
                 [gens EXCEPT ![g].hunger = HungerAfterRead(KindOf(g), @, anomaly)]
          [] pc = "fed" ->
                 [gens EXCEPT ![g].growth_signal = GrowthAfterRead(KindOf(g), gens[g].hunger)]
          [] pc = "grown" ->
                 [gens EXCEPT ![g].results = @ + 1]
          [] OTHER -> gens

\* the reading a finished read returns: its anomaly flag, with the hunger and
\* growth_signal of the generator
ReadingOf(gen, anomaly) ==
    [anomaly |-> anomaly, hunger |-> gen.hunger, growth_signal |-> gen.growth_signal]

NoReading == [anomaly |-> FALSE, hunger |-> 0, growth_signal |-> FALSE]

EnvConstructed ==
    /\ envGens = [g \in Generators |-> FreshGenerator]
    /\ envPc = [g \in Generators |-> "idle"]
    /\ envTick = NoTick
    /\ envAnomaly = [g \in Generators |-> FALSE]
    /\ envSubmitted = [g \in Generators |-> FreshGenerator]
    /\ envTicks = 0
    /\ sensor_values = [g \in Generators |-> NoReading]

EnvIdle == EnvConstructed

\* read_environment, lines 81-83: the tick is fetched and a read of every
\* generator is submitted to the executor
Submit(tick) ==
    /\ \A g \in Generators : envPc[g] = "idle"
    /\ envTicks < MaxTicks
    /\ envTick' = tick
    /\ envPc' = [g \in Generators |-> "ready"]
    /\ envSubmitted' = envGens
    /\ envTicks' = envTicks + 1
    /\ UNCHANGED <<envGens, envAnomaly, sensor_values>>
    /\ UNCHANGED exceptEnv

\* one statement of the read of generator g, run by its worker
\* (base_sensor.py, lines 205-235)
WorkerStep(g) ==
    LET anomaly == IF envPc[g] = "trimmed"
                   THEN SymmetricAnomaly(envGens[BufferOwner(g)].buffer,
                                         ValueFor(g, envTick), envGens[g].hunger)
                   ELSE envAnomaly[g]
    IN  /\ envPc[g] \notin {"idle", "done"}
        /\ envGens' = StepGens(envGens, g, envPc[g], envTick, anomaly)
        /\ envAnomaly' = [envAnomaly EXCEPT ![g] = anomaly]
        /\ envPc' = [envPc EXCEPT ![g] = NextStep(@)]
        /\ UNCHANGED <<envTick, envSubmitted, envTicks, sensor_values>>
        /\ UNCHANGED exceptEnv

\* read_environment, lines 84-86: the results of all reads are collected
Collect ==
    /\ \A g \in Generators : envPc[g] = "done"
    /\ sensor_values' = [g \in Generators |-> ReadingOf(envGens[g], envAnomaly[g])]
    /\ envPc' = [g \in Generators |-> "idle"]
    /\ UNCHANGED <<envGens, envTick, envAnomaly, envSubmitted, envTicks>>
    /\ UNCHANGED exceptEnv

EnvNext ==
    \/ \E tick \in Ticks : Submit(tick)
    \/ \E g \in Generators : WorkerStep(g)
    \/ Collect

-----------------------------------------------------------------------------
(* gie_main_switch.py: the main loop and the automatic restart             *)

\* GIE_CONFIG["auto_restart"] as the module defines it (line 30)
ConfiguredAutoRestart == TRUE

\* the script starts: the module is executed, GIE_CONFIG is built, and
\* __main__ calls gie_start (lines 21-35, 170-172)
ProcessStarted ==
    /\ mainPc = "init"
    /\ n_cycle = 0
    /\ nextEngine = 0
    /\ ending = "none"
    /\ auto_restart = ConfiguredAutoRestart

MainConstructed == ProcessStarted /\ restarts = 0

MainIdle == MainConstructed

\* gie_start, lines 106-131: the components are loaded and the first cycle
\* begins
StartLoop ==
    /\ mainPc = "init"
    /\ mainPc' = "cycle"
    /\ n_cycle' = 1
    /\ nextEngine' = 1
    /\ UNCHANGED <<ending, auto_restart, restarts>>
    /\ UNCHANGED exceptMain

\* gie_start, lines 141-155: run() and learn() of the next engine; what they
\* raise is caught and logged
RunEngine ==
    /\ mainPc = "cycle"
    /\ nextEngine <= LoadedEngines
    /\ nextEngine' = nextEngine + 1
    /\ UNCHANGED <<mainPc, n_cycle, ending, auto_restart, restarts>>
    /\ UNCHANGED exceptMain

\* gie_start, lines 157-163: after the last engine the loop ends when the
\* runtime is over, else it sleeps
EndCycle(timeUp) ==
    /\ mainPc = "cycle"
    /\ nextEngine = LoadedEngines + 1
    /\ IF timeUp THEN mainPc' = "ended" /\ ending' = "normal"
                 ELSE mainPc' = "sleep" /\ ending' = ending
    /\ UNCHANGED <<n_cycle, nextEngine, auto_restart, restarts>>
    /\ UNCHANGED exceptMain

\* gie_start, lines 130-131: the sleep is over and the next cycle begins
NextCycle ==
    /\ mainPc = "sleep"
    /\ n_cycle < MaxMainCycles
    /\ mainPc' = "cycle"
    /\ n_cycle' = n_cycle + 1
    /\ nextEngine' = 1
    /\ UNCHANGED <<ending, auto_restart, restarts>>
    /\ UNCHANGED exceptMain

\* CTRL+C: KeyboardInterrupt is raised where the process stands. In the loop
\* it passes the except Exception around run() and learn() and is caught at
\* line 164, which ends gie_start; before the loop nothing catches it
KeyboardInterrupt ==
    /\ mainPc # "ended"
    /\ mainPc' = "ended"
    /\ ending' = IF mainPc = "init" THEN "killed" ELSE "interrupt"
    /\ UNCHANGED <<n_cycle, nextEngine, auto_restart, restarts>>
    /\ UNCHANGED exceptMain

\* an exception in the loop outside run() and learn() (the logger, the
\* monitor): line 166 catches it and gie_start returns
LoopError ==
    /\ mainPc \in {"cycle", "sleep"}
    /\ mainPc' = "ended"
    /\ ending' = "caught"
    /\ UNCHANGED <<n_cycle, nextEngine, auto_restart, restarts>>
    /\ UNCHANGED exceptMain

\* an exception escapes gie_start (raised before its try block, lines
\* 106-127): __main__, lines 173-181. With auto_restart the flag is cleared
\* and os.execv replaces the process by a new run of the script, which builds
\* GIE_CONFIG anew; without it the process ends
CriticalError ==
    /\ mainPc = "init"
    /\ restarts < MaxRestarts
    /\ IF auto_restart
       THEN /\ mainPc' = "init"
            /\ n_cycle' = 0
            /\ nextEngine' = 0
            /\ ending' = "none"
            /\ auto_restart' = ConfiguredAutoRestart
            /\ restarts' = restarts + 1
       ELSE /\ mainPc' = "ended"
            /\ ending' = "critical"
            /\ UNCHANGED <<n_cycle, nextEngine, auto_restart, restarts>>
    /\ UNCHANGED exceptMain

MainNext ==
    \/ StartLoop
    \/ RunEngine
    \/ \E timeUp \in BOOLEAN : EndCycle(timeUp)
    \/ NextCycle
    \/ KeyboardInterrupt
    \/ LoopError
    \/ CriticalError

-----------------------------------------------------------------------------
(* MetaMaster (core/Meta_Master.py): hunger and evolution cycles          *)
(* Profits are in hundredths.                                              *)

\* self.max_hunger = 10
max_hunger == 10

\* The last line of data/profit.log when a check reads it, or the state of the
\* file: absent, without lines, or ending in a line that is no number
ProfitLogs ==
    [file : {"missing", "empty", "garbage"}, last : {0}]
        \cup [file : {"number"}, last : {-150, 0, 250}]

\* get_latest_profit (lines 74-86): float(last line), 0 where the file is
\* absent or empty or the line does not parse
LatestProfit(log) == IF log.file = "number" THEN log.last ELSE 0

\* a threshold passed only above max_hunger
ExceedsHunger(h) == h > max_hunger

\* if self.gie_hunger >= self.max_hunger (line 69)
ReachesHunger(h) == h >= max_hunger

\* MetaMaster.__init__, lines 16-20
MasterConstructed ==
    /\ gie_hunger = 0
    /\ success_streak = 0
    /\ meta_mood = "curious"
    /\ master_cycle = 0
    /\ evolutions = 0
    /\ launched = FALSE
    /\ negative_run = 0

MasterIdle == MasterConstructed

\* one cycle of run() (lines 132-139): check_performance_and_evolve (lines
\* 56-72) with the profit log as it is then; analyze_structure,
\* meta_reflect_and_rewrite and exchange_knowledge only log.
\* evolve_engines_and_sensors (lines 88-97) clones an engine file where engines
\* were loaded and runs the hunter tools inside a try; it changes no counter.
CheckPerformance(log) ==
    LET profit == LatestProfit(log)
        hungrier == IF profit < 0 THEN gie_hunger + 1 ELSE 0
    IN  /\ master_cycle < MaxChecks
        /\ master_cycle' = master_cycle + 1
        /\ success_streak' = IF profit < 0 THEN 0 ELSE success_streak + 1
        /\ meta_mood' = IF profit < 0 THEN "hungry" ELSE "satisfied"
        /\ launched' = ReachesHunger(hungrier)
        /\ gie_hunger' = IF ReachesHunger(hungrier) THEN 0 ELSE hungrier
        /\ evolutions' = IF ReachesHunger(hungrier) THEN evolutions + 1 ELSE evolutions
        /\ negative_run' = IF profit >= 0 THEN 0
                           ELSE IF launched THEN 1
                           ELSE negative_run + 1
        /\ UNCHANGED exceptMaster

MasterNext == \E log \in ProfitLogs : CheckPerformance(log)

-----------------------------------------------------------------------------
(* AutoEvolver (core/auto_evolver.py): branch, generate, commit, test,    *)
(* merge or rollback. A subprocess.run(..., check=True) either succeeds or *)
(* raises; the outcome is an input of the step.                            *)

\* the main branch
Main == 0

\* the outcomes of subprocess.run(["pytest"]) in run_tests (lines 91-96):
\* return code 0, another return code, or an exception
TestOutcomes == {"passed", "failed", "error"}

\* a test run that counts as passed whenever pytest could be started
TestsRan(outcome) == outcome # "error"

\* run_tests (lines 91-96): result.returncode == 0, False on an exception
RunTestsResult(outcome) == outcome = "passed"

\* one step of the trace: what was attempted and whether it succeeded (for the
\* tests: whether pytest returned 0)
Step(name, ok) == [step |-> name, ok |-> ok]

\* AutoEvolver.__init__ (lines 10-12), in a repository on main
EvolverAtRest ==
    /\ evoPc = "idle"
    /\ evoCall = 0
    /\ head = Main
    /\ branches = {}
    /\ evoTrace = <<>>
    /\ evoReturn = "none"

AutoConstructed == evoLogs = FALSE /\ EvolverAtRest

AutoIdle == AutoConstructed

\* evolve, line 27, with the MetaLogger of utils/meta_logger.py, which has no
\* method log: AttributeError before any step
EvolveNoLog ==
    /\ evoPc = "idle"
    /\ ~evoLogs
    /\ evoCall < MaxEvolveCalls
    /\ evoCall' = evoCall + 1
    /\ evoTrace' = <<>>
    /\ evoReturn' = "AttributeError"
    /\ UNCHANGED <<evoLogs, evoPc, head, branches, exceptAuto>>

\* evolve, lines 24-34: git checkout -b branch_name
CreateBranch(ok) ==
    /\ evoPc = "idle"
    /\ evoLogs
    /\ evoCall < MaxEvolveCalls
    /\ evoCall' = evoCall + 1
    /\ evoTrace' = <<Step("branch", ok)>>
    /\ IF ok
       THEN /\ head' = evoCall + 1
            /\ branches' = branches \cup {evoCall + 1}
            /\ evoPc' = "generate"
            /\ evoReturn' = "none"
       ELSE /\ evoReturn' = "False"
            /\ UNCHANGED <<head, branches, evoPc>>
    /\ UNCHANGED <<evoLogs, exceptAuto>>

\* evolve, lines 37-48: the generated file is written
GenerateCode(ok) ==
    /\ evoPc = "generate"
    /\ evoTrace' = Append(evoTrace, Step("generate", ok))
    /\ evoPc' = IF ok THEN "commit" ELSE "rollback"
    /\ UNCHANGED <<evoLogs, evoCall, head, branches, evoReturn, exceptAuto>>

\* evolve, lines 51-57: git add . and git commit
Commit(ok) ==
    /\ evoPc = "commit"
    /\ evoTrace' = Append(evoTrace, Step("commit", ok))
    /\ evoPc' = IF ok THEN "test" ELSE "rollback"
    /\ UNCHANGED <<evoLogs, evoCall, head, branches, evoReturn, exceptAuto>>

\* evolve, lines 60-64: tests_passed = self.run_tests()
RunTests(outcome) ==
    /\ evoPc = "test"
    /\ evoTrace' = Append(evoTrace, Step("test", outcome = "passed"))
    /\ evoPc' = IF RunTestsResult(outcome) THEN "merge" ELSE "rollback"
    /\ UNCHANGED <<evoLogs, evoCall, head, branches, evoReturn, exceptAuto>>

\* evolve, lines 67-76: git checkout main, git merge branch_name; a failure of
\* either returns False at once (line 73)
Merge(checkedOut, merged) ==
    /\ evoPc = "merge"
    /\ evoTrace' = Append(evoTrace, Step("merge", checkedOut /\ merged))
    /\ head' = IF checkedOut THEN Main ELSE head
    /\ evoReturn' = IF checkedOut /\ merged THEN "True" ELSE "False"
    /\ evoPc' = "idle"
    /\ UNCHANGED <<evoLogs, evoCall, branches, exceptAuto>>

\* rollback (lines 98-107), then return False: git checkout main, git branch -D
\* branch_name; an exception of either is logged and swallowed
Rollback(checkedOut, deleted) ==
    /\ evoPc = "rollback"
    /\ evoTrace' = Append(evoTrace, Step("rollback", checkedOut /\ deleted))
    /\ head' = IF checkedOut THEN Main ELSE head
    /\ branches' = IF checkedOut /\ deleted THEN branches \ {evoCall} ELSE branches
    /\ evoReturn' = "False"
    /\ evoPc' = "idle"
    /\ UNCHANGED <<evoLogs, evoCall, exceptAuto>>

AutoNext ==
    \/ EvolveNoLog
    \/ \E ok \in BOOLEAN : CreateBranch(ok)
    \/ \E ok \in BOOLEAN : GenerateCode(ok)
    \/ \E ok \in BOOLEAN : Commit(ok)
    \/ \E outcome \in TestOutcomes : RunTests(outcome)
    \/ \E checkedOut, merged \in BOOLEAN : Merge(checkedOut, merged)
    \/ \E checkedOut, deleted \in BOOLEAN : Rollback(checkedOut, deleted)

-----------------------------------------------------------------------------
(* Hive of sensors (core/base_sensor.py): sharing of knowledge             *)

\* the patterns a sensor may have learnt
Patterns == {1, 2}

\* the union of the sets of a sequence
RECURSIVE UnionOf(_)
UnionOf(banks) ==
    IF banks = <<>> THEN {} ELSE Head(banks) \cup UnionOf(Tail(banks))

\* share_knowledge, lines 25-27, from member i on: the member takes the hive's
\* bank, then the hive takes the member's
RECURSIVE ShareFrom(_, _, _)
ShareFrom(i, hiveBank, banks) ==
    IF i > Len(banks) THEN [hive |-> hiveBank, members |-> banks]
    ELSE LET mine == banks[i] \cup hiveBank
         IN  ShareFrom(i + 1, hiveBank \cup mine, [banks EXCEPT ![i] = mine])

\* Hive.__init__ (lines 15-17)
SwarmConstructed ==
    /\ member_banks = <<>>
    /\ knowledge_bank = {}
    /\ banks_before = [hive |-> {}, members |-> <<>>]
    /\ swarmOp = "init"

SwarmIdle == SwarmConstructed

\* Hive.add (lines 19-21) of a sensor whose bank holds the patterns of known
SwarmAdd(known) ==
    /\ Len(member_banks) < MaxMembers
    /\ member_banks' = Append(member_banks, known)
    /\ swarmOp' = "add"
    /\ UNCHANGED <<knowledge_bank, banks_before, exceptSwarm>>

\* Hive.share_knowledge (lines 23-28)
SwarmShare ==
    LET after == ShareFrom(1, knowledge_bank, member_banks)
    IN  /\ banks_before' = [hive |-> knowledge_bank, members |-> member_banks]
        /\ member_banks' = after.members
        /\ knowledge_bank' = after.hive
        /\ swarmOp' = "share"
        /\ UNCHANGED exceptSwarm

SwarmNext ==
    \/ \E known \in SUBSET Patterns : SwarmAdd(known)
    \/ SwarmShare

-----------------------------------------------------------------------------
(* GieCloneManager and GieClone (core/gie_clone.py)                        *)
(* performance is in tenths, so that int(performance * 10) is its value.   *)

\* self.reputation = 1000
StartReputation == 1000

\* hunger_check(min_hunger=2)
min_hunger == 2

\* select_best_clones(self.clones, top_n=2)
top_n == 2

\* the results of GieMind.simulate_performance() in test_clone, in tenths
Performances == {-5, 20}

\* the hunger_level given to create_initial_clone
InitialHungers == 1..MaxInitialHunger

\* the iterations given to mass_cloning
IterationCounts == 1..MaxIterations

\* GieClone.__init__ (lines 29-48)
NewClone(parent_id, hunger_level) ==
    [parent_id |-> parent_id, hunger_level |-> hunger_level, status |-> "created",
     tested |-> FALSE, performance |-> 0, reputation |-> StartReputation]

\* a hunger check that also passes at min_hunger
HungerAtLeast(c) == c.hunger_level >= min_hunger

\* hunger_check (lines 153-155)
HungerCheck(c) == c.hunger_level > min_hunger

\* clone_self (lines 76-94): the child of clone number id
CloneSelf(id) == NewClone(id, Max2(1, clone_objs[id].hunger_level - 1))

\* test_clone and update_reputation (lines 109-125)
Tested(c, performance) ==
    [c EXCEPT !.performance = performance, !.tested = TRUE, !.status = "tested",
              !.reputation = @ + performance]

\* the sort key of select_best_clones: (x.reputation, x.performance or 0)
RankKey(c) == <<c.reputation, IF c.tested THEN c.performance ELSE 0>>

KeyAbove(a, b) == a[1] > b[1] \/ (a[1] = b[1] /\ a[2] > b[2])

\* the place of position i of list in sorted(list, key, reverse=True): the sort
\* is stable, clones of equal key keep their order
PlaceOf(objs, list, i) ==
    1 + Cardinality({j \in DOMAIN list :
            \/ KeyAbove(RankKey(objs[list[j]]), RankKey(objs[list[i]]))
            \/ RankKey(objs[list[j]]) = RankKey(objs[list[i]]) /\ j < i})

\* the first n clones of the list as it stands
SelectFirstClones(objs, list, n) ==
    [p \in 1..Min2(n, Len(list)) |-> list[p]]

\* select_best_clones (lines 134-138): sorted_clones[:n]
SelectBestClones(objs, list, n) ==
    [p \in 1..Min2(n, Len(list)) |->
        list[CHOOSE i \in DOMAIN list : PlaceOf(objs, list, i) = p]]

\* the depth of a clone below the initial clone
RECURSIVE DepthOf(_, _)
DepthOf(objs, id) ==
    IF objs[id].parent_id = 0 THEN 0 ELSE 1 + DepthOf(objs, objs[id].parent_id)

\* GieCloneManager.__init__ (lines 194-195)
ManagerConstructed ==
    /\ clone_objs = <<>>
    /\ clones = <<>>
    /\ new_clones = <<>>
    /\ managerPc = "idle"
    /\ iterations_left = 0
    /\ clone_idx = 0

ManagerIdle == ManagerConstructed

\* create_initial_clone (lines 197-200); parent "ROOT" is number 0
CreateInitialClone(hunger_level) ==
    /\ managerPc = "idle"
    /\ clone_objs = <<>>
    /\ clone_objs' = <<NewClone(0, hunger_level)>>
    /\ clones' = <<1>>
    /\ UNCHANGED <<new_clones, managerPc, iterations_left, clone_idx, exceptManager>>

\* mass_cloning (line 202-204) is called: the first iteration begins
MassCloning(iterations) ==
    /\ managerPc = "idle"
    /\ clones # <<>>
    /\ Len(clone_objs) <= MaxCloneObjs
    /\ managerPc' = "loop"
    /\ iterations_left' = iterations
    /\ new_clones' = <<>>
    /\ clone_idx' = 1
    /\ UNCHANGED <<clone_objs, clones, exceptManager>>

\* mass_cloning, lines 205-212: the next clone of self.clones is checked and,
\* if hungry enough, cloned; the new clone is tested
CloneOrSkip(performance) ==
    /\ managerPc = "loop"
    /\ clone_idx <= Len(clones)
    /\ IF HungerCheck(clone_objs[clones[clone_idx]])
       THEN /\ clone_objs' = Append(clone_objs, Tested(CloneSelf(clones[clone_idx]), performance))
            /\ new_clones' = Append(new_clones, Len(clone_objs) + 1)
       ELSE UNCHANGED <<clone_objs, new_clones>>
    /\ clone_idx' = clone_idx + 1
    /\ UNCHANGED <<clones, managerPc, iterations_left, exceptManager>>

\* mass_cloning, lines 213-214: self.clones.extend(new_clones); social_learning
\* copies memories only
EndIteration ==
    /\ managerPc = "loop"
    /\ clone_idx > Len(clones)
    /\ clones' = clones \o new_clones
    /\ new_clones' = <<>>
    /\ iterations_left' = iterations_left - 1
    /\ clone_idx' = 1
    /\ managerPc' = IF iterations_left = 1 THEN "select" ELSE "loop"
    /\ UNCHANGED <<clone_objs, exceptManager>>

\* select_and_archive (lines 221-226)
SelectAndArchive ==
    /\ managerPc = "select"
    /\ LET best_clones == SelectBestClones(clone_objs, clones, top_n)
       IN  /\ clone_objs' =
                 [id \in DOMAIN clone_objs |->
                     IF id \in Range(clones) /\ id \notin Range(best_clones)
                     THEN [clone_objs[id] EXCEPT !.status = "archived"]
                     ELSE clone_objs[id]]
           /\ clones' = best_clones
    /\ managerPc' = "idle"
    /\ UNCHANGED <<new_clones, iterations_left, clone_idx, exceptManager>>

ManagerNext ==
    \/ \E hunger_level \in InitialHungers : CreateInitialClone(hunger_level)
    \/ \E iterations \in IterationCounts : MassCloning(iterations)
    \/ \E performance \in Performances : CloneOrSkip(performance)
    \/ EndIteration
    \/ SelectAndArchive

-----------------------------------------------------------------------------
(* MT5DataProvider (data_providers/mt5_data.py): the data loop and stop()  *)
(* The loop runs in the thread start() makes; stop() is called from        *)
(* another thread, and the two interleave between the steps below.         *)

\* config.get("max_retries", 5): the limits tried
RetryLimits == 1..MaxRetryLimit

\* the loop goes on after an error while the count is within the limit
MayRestartAtLimit(count) == provider_auto_restart /\ count <= max_retries

\* line 131: the loop goes on after an error
MayRestart(count) == provider_auto_restart /\ count < max_retries

\* MT5DataProvider.__init__ (lines 25-39) with the config given
ProviderConstructed(restart, limit) ==
    /\ running = FALSE
    /\ mt5_initialized = FALSE
    /\ retries = 0
    /\ turns = 0
    /\ loopPc = "unstarted"
    /\ stopPc = "idle"
    /\ provider_auto_restart = restart
    /\ max_retries = limit

ProviderIdle == ProviderConstructed(TRUE, 5)

\* start() (lines 156-161): the flag is set and the thread made
Start ==
    /\ loopPc = "unstarted"
    /\ running' = TRUE
    /\ loopPc' = "spawned"
    /\ UNCHANGED <<mt5_initialized, retries, turns, stopPc, provider_auto_restart, max_retries>>
    /\ UNCHANGED exceptProvider

\* run_data_loop, lines 102-103
LoopEnter ==
    /\ loopPc = "spawned"
    /\ running' = TRUE
    /\ retries' = 0
    /\ loopPc' = "test"
    /\ UNCHANGED <<mt5_initialized, turns, stopPc, provider_auto_restart, max_retries>>
    /\ UNCHANGED exceptProvider

\* line 104: while self.running
LoopTest ==
    /\ loopPc = "test"
    /\ running => turns < MaxLoopTurns
    /\ loopPc' = IF running THEN "check" ELSE "exited"
    /\ turns' = IF running THEN turns + 1 ELSE turns
    /\ UNCHANGED <<running, mt5_initialized, retries, stopPc, provider_auto_restart, max_retries>>
    /\ UNCHANGED exceptProvider

\* line 106: if not self.mt5_initialized
LoopCheck ==
    /\ loopPc = "check"
    /\ loopPc' = IF mt5_initialized THEN "work" ELSE "initialize"
    /\ UNCHANGED <<running, mt5_initialized, retries, turns, stopPc, provider_auto_restart,
                   max_retries>>
    /\ UNCHANGED exceptProvider

\* lines 108-110 with initialize_mt5 (49-55): connected says what
\* mt5.initialize returned; after a failure the loop sleeps and goes round
LoopInitialize(connected) ==
    /\ loopPc = "initialize"
    /\ mt5_initialized' = IF connected THEN TRUE ELSE mt5_initialized
    /\ loopPc' = IF connected THEN "work" ELSE "test"
    /\ UNCHANGED <<running, retries, turns, stopPc, provider_auto_restart, max_retries>>
    /\ UNCHANGED exceptProvider

\* lines 112-127: the body of an iteration, which raises or not
LoopWork(raises) ==
    /\ loopPc = "work"
    /\ loopPc' = IF raises THEN "handler" ELSE "test"
    /\ UNCHANGED <<running, mt5_initialized, retries, turns, stopPc, provider_auto_restart,
                   max_retries>>
    /\ UNCHANGED exceptProvider

\* lines 128-137: the except clause, with shutdown_mt5 (57-60)
LoopHandler ==
    /\ loopPc = "handler"
    /\ retries' = retries + 1
    /\ IF MayRestart(retries + 1)
       THEN mt5_initialized' = FALSE /\ UNCHANGED running
       ELSE running' = FALSE /\ UNCHANGED mt5_initialized
    /\ loopPc' = "test"
    /\ UNCHANGED <<turns, stopPc, provider_auto_restart, max_retries>>
    /\ UNCHANGED exceptProvider

\* stop(), line 165
StopFlag ==
    /\ stopPc = "idle"
    /\ loopPc # "unstarted"
    /\ running' = FALSE
    /\ stopPc' = "shutting"
    /\ UNCHANGED <<mt5_initialized, retries, turns, loopPc, provider_auto_restart, max_retries>>
    /\ UNCHANGED exceptProvider

\* stop(), line 166: shutdown_mt5 (57-60)
StopShutdown ==
    /\ stopPc = "shutting"
    /\ mt5_initialized' = FALSE
    /\ stopPc' = "returned"
    /\ UNCHANGED <<running, retries, turns, loopPc, provider_auto_restart, max_retries>>
    /\ UNCHANGED exceptProvider

ProviderNext ==
    \/ Start
    \/ LoopEnter
    \/ LoopTest
    \/ LoopCheck
    \/ \E connected \in BOOLEAN : LoopInitialize(connected)
    \/ \E raises \in BOOLEAN : LoopWork(raises)
    \/ LoopHandler
    \/ StopFlag
    \/ StopShutdown

-----------------------------------------------------------------------------
(* The specifications                                                      *)

\* the components added to the first four, constructed and idle
LaterIdle == QueryIdle /\ SensorsIdle /\ EvolverIdle /\ EngineIdle /\ EnvIdle /\ MainIdle /\ MasterIdle /\ AutoIdle /\ SwarmIdle /\ ManagerIdle /\ ProviderIdle

\* the first four components, constructed and idle
FirstIdle == LedgerConstructed /\ GuardianConstructed(DefaultConfig) /\ HiveInit /\ MindInit

\* the ledger on its own
LedgerInit ==
    LedgerConstructed /\ GuardianConstructed(DefaultConfig) /\ HiveInit /\ MindInit /\ LaterIdle

SpecLedger == LedgerInit /\ [][LedgerNext]_vars

\* the ledger fed with observations that differ in the order of their readings
\* and below the resolution of the key
KeysNext == \E h \in KeyHistories : UpdateCall(h)

SpecKeys == LedgerInit /\ [][KeysNext]_vars

\* the guardian on its own, watching a system that may be in any of SystemStates
GuardianOnlyInit == LedgerConstructed /\ GuardianInit /\ HiveInit /\ MindInit /\ LaterIdle

GuardianNext == \E sys \in SystemStates : MonitorAll(sys)

SpecGuardian == GuardianOnlyInit /\ [][GuardianNext]_vars

\* the guardian on its own, constructed from a config file of either kind
TuningInit ==
    /\ LedgerConstructed
    /\ \E cfg \in {ScenarioConfig, LowGridConfig} : GuardianConstructed(cfg)
    /\ HiveInit
    /\ MindInit
    /\ LaterIdle

SpecTuning == TuningInit /\ [][GuardianNext]_vars

\* the hive on its own
HiveOnlyInit ==
    LedgerConstructed /\ GuardianConstructed(DefaultConfig) /\ HiveInit /\ MindInit /\ LaterIdle

SpecHive == HiveOnlyInit /\ [][HiveNext]_vars

\* the controller with its ledger and its guardian (gie_mind.py, lines 200-207):
\* run and monitor_all are called in turn, the ledger learns from its peers
ControllerInit ==
    /\ LedgerConstructed
    /\ \E cfg \in {DefaultConfig, StrictConfig} : GuardianConstructed(cfg)
    /\ HiveInit
    /\ \E st \in {DefaultStats, LoadedStats} : MindConstructed(st)
    /\ LaterIdle

\* a peer's ledger about the engines of the controller
PeerLedger == (<<"RyzykantEngine", 0, 0, 0>> :> [win |-> 3, trials |-> 4])

\* the ledgers the controller's ledger merges in
ControllerPeers == {PeerLedger, (KeyQuietA :> [win |-> 1, trials |-> 4])}

ControllerNext ==
    \/ MindNext
    \/ MonitorAll(MindSystem)
    \/ \E r \in ControllerPeers : MergeCall(r)

SpecMind == ControllerInit /\ [][ControllerNext]_vars

\* the three operations that write win and trials counters: update and
\* merge_knowledge on the ledger, receive_feedback (within run) on the stats
CountsNext ==
    \/ \E record \in ScoredRecords : UpdateCall(<<record>>)
    \/ \E r \in RemoteLedgers : MergeCall(r)
    \/ \E engine \in FeedbackEngines, success \in BOOLEAN : FeedbackCall(engine, success)

SpecCounts == LedgerInit /\ [][CountsNext]_vars

\* suggest on its own, over the ledgers and queries of QueryConstructed
QueryInit == FirstIdle /\ QueryConstructed /\ SensorsIdle /\ EvolverIdle /\ EngineIdle /\ EnvIdle /\ MainIdle /\ MasterIdle /\ AutoIdle /\ SwarmIdle /\ ManagerIdle /\ ProviderIdle

SpecSuggest == QueryInit /\ [][QueryNext]_vars

\* a sensor of any class and window, fed observations
SensorInit ==
    /\ FirstIdle
    /\ QueryIdle
    /\ EvolverIdle
    /\ EngineIdle
    /\ EnvIdle
    /\ MainIdle
    /\ MasterIdle
    /\ AutoIdle
    /\ SwarmIdle
    /\ ManagerIdle
    /\ ProviderIdle
    /\ \E kind \in SensorKinds, w \in Windows : SensorsConstructed(kind, w)

SpecSensor == SensorInit /\ [][SensorNext]_vars

\* a sensor, its clone, and reads of both
SpecClone == SensorInit /\ [][CloneNext]_vars

\* an evolver over one or two engines, with the outcomes the controller records
EvolverInit ==
    /\ FirstIdle
    /\ QueryIdle
    /\ SensorsIdle
    /\ EngineIdle
    /\ EnvIdle
    /\ MainIdle
    /\ MasterIdle
    /\ AutoIdle
    /\ SwarmIdle
    /\ ManagerIdle
    /\ ProviderIdle
    /\ \E keys \in Populations, kind \in EngineKinds, reflection \in Reflections :
           EvolverConstructed(keys, kind, reflection)

SpecEvolver == EvolverInit /\ [][EvolverNext]_vars

CycleInit ==
    /\ FirstIdle
    /\ QueryIdle
    /\ SensorsIdle
    /\ EngineIdle
    /\ EnvIdle
    /\ MainIdle
    /\ MasterIdle
    /\ AutoIdle
    /\ SwarmIdle
    /\ ManagerIdle
    /\ ProviderIdle
    /\ \E keys \in Populations, kind \in EngineKinds, reflection \in Reflections :
       \E counts \in [Range(keys) -> InitialCounts] :
           EvolverGiven(keys, kind, reflection, counts)

SpecCycle == CycleInit /\ [][CycleNext]_vars

\* one engine and the feedback it receives
EngineInit ==
    /\ FirstIdle
    /\ QueryIdle
    /\ SensorsIdle
    /\ EvolverIdle
    /\ EnvIdle
    /\ MainIdle
    /\ MasterIdle
    /\ AutoIdle
    /\ SwarmIdle
    /\ ManagerIdle
    /\ ProviderIdle
    /\ EngineConstructed

SpecEngine == EngineInit /\ [][EngineNext]_vars

\* read_environment called again and again on two generators
EnvInit ==
    /\ FirstIdle
    /\ QueryIdle
    /\ SensorsIdle
    /\ EvolverIdle
    /\ EngineIdle
    /\ MainIdle
    /\ MasterIdle
    /\ AutoIdle
    /\ SwarmIdle
    /\ ManagerIdle
    /\ ProviderIdle
    /\ EnvConstructed

SpecEnv == EnvInit /\ [][EnvNext]_vars

\* the script gie_main_switch.py, run as a process
MainInit ==
    /\ FirstIdle
    /\ QueryIdle
    /\ SensorsIdle
    /\ EvolverIdle
    /\ EngineIdle
    /\ EnvIdle
    /\ MasterIdle
    /\ AutoIdle
    /\ SwarmIdle
    /\ ManagerIdle
    /\ ProviderIdle
    /\ MainConstructed

SpecMain == MainInit /\ [][MainNext]_vars

\* MetaMaster.run(), check after check
MasterInit ==
    /\ FirstIdle
    /\ QueryIdle
    /\ SensorsIdle
    /\ EvolverIdle
    /\ EngineIdle
    /\ EnvIdle
    /\ MainIdle
    /\ AutoIdle
    /\ SwarmIdle
    /\ ManagerIdle
    /\ ProviderIdle
    /\ MasterConstructed

SpecMaster == MasterInit /\ [][MasterNext]_vars

\* AutoEvolver.evolve, call after call, with the logger of the repository or
\* with one that offers log(msg)
AutoInit ==
    /\ FirstIdle
    /\ QueryIdle
    /\ SensorsIdle
    /\ EvolverIdle
    /\ EngineIdle
    /\ EnvIdle
    /\ MainIdle
    /\ MasterIdle
    /\ SwarmIdle
    /\ ManagerIdle
    /\ ProviderIdle
    /\ evoLogs \in BOOLEAN
    /\ EvolverAtRest

SpecAuto == AutoInit /\ [][AutoNext]_vars

\* a hive of sensors: members join with what they know, knowledge is shared
SwarmInit ==
    /\ FirstIdle
    /\ QueryIdle
    /\ SensorsIdle
    /\ EvolverIdle
    /\ EngineIdle
    /\ EnvIdle
    /\ MainIdle
    /\ MasterIdle
    /\ AutoIdle
    /\ ManagerIdle
    /\ ProviderIdle
    /\ SwarmConstructed

SpecSwarm == SwarmInit /\ [][SwarmNext]_vars

\* a GieCloneManager: the initial clone, then mass_cloning
ManagerInit ==
    /\ FirstIdle
    /\ QueryIdle
    /\ SensorsIdle
    /\ EvolverIdle
    /\ EngineIdle
    /\ EnvIdle
    /\ MainIdle
    /\ MasterIdle
    /\ AutoIdle
    /\ SwarmIdle
    /\ ProviderIdle
    /\ ManagerConstructed

SpecManager == ManagerInit /\ [][ManagerNext]_vars

\* a provider of any retry configuration, started once and stopped at any
\* moment or never
ProviderInit ==
    /\ FirstIdle
    /\ QueryIdle
    /\ SensorsIdle
    /\ EvolverIdle
    /\ EngineIdle
    /\ EnvIdle
    /\ MainIdle
    /\ MasterIdle
    /\ AutoIdle
    /\ SwarmIdle
    /\ ManagerIdle
    /\ \E restart \in BOOLEAN, limit \in RetryLimits : ProviderConstructed(restart, limit)

SpecProvider == ProviderInit /\ [][ProviderNext]_vars

-----------------------------------------------------------------------------
(* Claims about the population, the guardian and the controller           *)

WithinBounds(n) == RetireFloor <= n /\ n <= CloneCeiling

\* C1: the population operations (add_agent, clone_agent, remove_agent,
\* meta_reflection) keep the number of live agents within its bounds: from a
\* population of at least 5 and at most 20 agents, every operation leaves a
\* population of at least 5 and at most 20 agents.
PopulationStaysWithinBounds ==
    [][WithinBounds(Len(agents)) => WithinBounds(Len(agents'))]_vars

\* the engines run() has dispatched so far, counted by their trials
Dispatched(st) == [e \in DOMAIN st |-> st[e].trials]

\* C2: while the guardian's last word on margin is the emergency action, the
\* controller dispatches no engine: no step taken in such a state counts a
\* trial of any engine.
NoDispatchWhileEmergency ==
    [][emergency => Dispatched(stats') = Dispatched(stats)]_vars

\* C3: in every monitor_all cycle each limit that the watched system breaches
\* has its corrective action invoked in that cycle, whatever the other checks
\* of the cycle do.
EveryBreachHandled ==
    [][guardianTrace' # guardianTrace \/ gie_system' # gie_system =>
        LET sys == gie_system'
            done == Range(guardianTrace')
        IN  /\ (sys.capital # 0 /\ DrawdownAbove(sys, config.max_drawdown * 10))
                  => "reduce_exposure" \in done
            /\ sys.open_trades > config.max_open_trades
                  => "limit_open_trades" \in done
            /\ (\E i \in 1..Len(sys.grids) : sys.grids[i] > config.max_grid_size)
                  => "close_riskiest_grid_positions" \in done
            /\ sys.margin_level < config.min_equity_margin
                  => "emergency_margin_action" \in done]_vars

CountOf(events, name) == Cardinality({i \in 1..Len(events) : events[i] = name})

\* C4: in a monitor_all cycle the overtrading action is issued at most once,
\* and a cycle that runs check_open_trades issues it exactly when the number
\* of open trades is above max_open_trades.
OvertradingHandledOnce ==
    /\ CountOf(guardianTrace, "limit_open_trades") <= 1
    /\ "limit_open_trades" \in Range(guardianTrace)
          => "check_open_trades" \in Range(guardianTrace)
    /\ "check_open_trades" \in Range(guardianTrace)
          => (CountOf(guardianTrace, "limit_open_trades") = 1
                 <=> gie_system.open_trades > config.max_open_trades)

\* the scenario: max_open_trades 5, 6 open trades, the action issued
OvertradingScenario ==
    /\ config.max_open_trades = 5
    /\ gie_system.open_trades = 6
    /\ CountOf(guardianTrace, "limit_open_trades") = 1

\* C5: a controller cycle dispatches exactly one engine: a run of at least
\* one step has chosen an engine in its cycle.
OneEngineDispatchedPerCycle ==
    lastRun.self_steps >= 1 => lastRun.chosen \in Range(MindEngines)

\* C6: an exception raised by an agent's act() does not abort the loop:
\* run_all never ends with that exception.
AgentErrorNeverAbortsRun ==
    ~(hivePc = "idle" /\ hiveError = "act")

-----------------------------------------------------------------------------
(* Claims about the ledger                                                 *)

\* C7: ledger merge is commutative: for every key present in both ledgers,
\* merging the remote into the local ledger gives the same (win, trials) entry
\* as merging the local ledger into the remote one.
MergeCommutative ==
    [][ledgerOp' = "merge_knowledge" =>
         \A k \in DOMAIN knowledge \cap DOMAIN ledgerArg' :
             knowledge'[k] = MergeKnowledge(ledgerArg', knowledge)[k]]_vars

\* C8: merging the same remote ledger a second time leaves the ledger exactly
\* as it was after the first merge.
RepeatedMergeIgnored ==
    [][(ledgerOp = "merge_knowledge" /\ ledgerOp' = "merge_knowledge"
            /\ ledgerArg' = ledgerArg)
         => knowledge' = knowledge]_vars

\* C9: each outcome record contributes to the counters of its key exactly once:
\* a further meta_loop over a history that holds no new record adds nothing.
RecordConsumedOnce ==
    [][(ledgerOp = "meta_loop" /\ ledgerOp' = "meta_loop") => knowledge' = knowledge]_vars

\* the step records one success for a key the ledger already holds
IsSuccessRecord(history) == Len(history) = 1 /\ WinOf(history[1]) = 1

\* C10: recording a success for an existing entry never decreases wins/trials,
\* and leaves the entry unchanged (a fixed point of further successes) only
\* when wins/trials is already 1.
SuccessRaisesRatio ==
    [][(ledgerOp' = "update" /\ IsSuccessRecord(ledgerArg')
            /\ KeyOf(ledgerArg'[1]) \in DOMAIN knowledge)
         => LET k == KeyOf(ledgerArg'[1])
                old == knowledge[k]
                new == knowledge'[k]
            IN  /\ new.win * old.trials >= old.win * new.trials
                /\ (new = old => old.win = old.trials)]_vars

-----------------------------------------------------------------------------
(* Claims about suggest                                                    *)

\* the items within the tolerance of the query (every signal differing by at
\* most 0.2) and with more than 3 trials
Qualifying ==
    {i \in 1..Len(sugItems) :
        /\ Abs(sugItems[i].n - Round1(Get(sugEnv, "noise", 0))) <= 2
        /\ Abs(sugItems[i].p - Round1(Get(sugEnv, "pressure", 0))) <= 2
        /\ Abs(sugItems[i].v - Round1(Get(sugEnv, "volume", 0))) <= 2
        /\ sugItems[i].trials > 3}

\* item i is at least as good as item j: a higher wins/trials, or the same
\* with at least as many trials
AtLeastAsGood(i, j) ==
    LET a == sugItems[i]
        b == sugItems[j]
    IN  \/ a.win * b.trials > b.win * a.trials
        \/ a.win * b.trials = b.win * a.trials /\ a.trials >= b.trials

\* C11: with exploration rate 0, suggest returns the qualifying candidate of
\* the highest wins/trials, ties broken by most trials.
ExploitReturnsBest ==
    (sugBranch # "unset" /\ sugCuriosity = 0 /\ Qualifying # {}) =>
        \E i \in Qualifying :
            /\ sugResult = sugItems[i].engine
            /\ \A j \in Qualifying : AtLeastAsGood(i, j)

\* C12: suggest returns no recommendation exactly when no item qualifies, and
\* otherwise the engine of a qualifying item, in either branch.
SuggestWithinCandidates ==
    sugBranch # "unset" =>
        /\ sugResult = "None" <=> Qualifying = {}
        /\ sugResult # "None" => \E i \in Qualifying : sugResult = sugItems[i].engine

-----------------------------------------------------------------------------
(* Claims about the controller's selection and feedback                    *)

\* C13: in a controller cycle an engine is selected: the one the ledger
\* recommends when it recommends one, and otherwise one of the controller's
\* engines; the selection is never empty.
RecommendedOrDefaultSelected ==
    lastRun.self_steps >= 1 =>
        IF lastRun.suggested # "None"
        THEN lastRun.chosen = lastRun.suggested
        ELSE lastRun.chosen \in Range(MindEngines)

\* C14: a receive_feedback call records its outcome fully or not at all: a
\* step that changes the win/trial counters also persists them.
FeedbackAllOrNothing ==
    [][stats' = stats \/ saved_stats' = stats']_vars

-----------------------------------------------------------------------------
(* Claims about the sensors                                                *)

\* the results that stand for no reading: None, {} and the zero result of
\* level "low"
NullResults == {"None", "empty", "low"}

\* C15: a read of a missing or malformed observation (None, empty, or without
\* the sensor's key) returns a null reading, leaves the sensor as it was, and
\* does not raise.
MissingObservationIsNull ==
    [][(lastRead'.who = "parent" /\ lastRead'.form # "valid") =>
          /\ lastRead'.result \in NullResults
          /\ parent' = parent]_vars

\* the last n elements of a sequence
LastN(seq, n) == SubSeq(seq, Len(seq) - n + 1, Len(seq))

\* C16: after any sequence of reads the buffer holds at most window values,
\* and exactly the most recent min(n, window) accepted raw values in arrival
\* order.
BufferIsRecentWindow ==
    /\ Len(parent.buffer) <= window
    /\ parent.buffer = LastN(parent.arrived, Min2(Len(parent.arrived), window))

\* more raw values than the window holds have arrived, and the oldest is gone
OldestEvicted ==
    /\ window = 2
    /\ parent.arrived = <<1, 9, 1>>
    /\ parent.buffer = <<9, 1>>

\* C17: for every sensor class, a read flagged anomaly lowers the hunger by
\* the fixed step but not below zero, any other read of a raw value raises it
\* by the class's increment, the hunger is never negative, and after the read
\* growth_signal is (hunger > the class's ceiling).
HungerFollowsAnomaly ==
    [][(lastRead'.who = "parent" /\ lastRead'.form = "valid" /\ parent' # parent) =>
          /\ parent'.hunger >= 0
          /\ lastRead'.anomaly => parent'.hunger = Max2(0, parent.hunger - 100)
          /\ ~lastRead'.anomaly => parent'.hunger = parent.hunger + HungerStep(sensorKind)
          /\ parent'.growth_signal <=> parent'.hunger > GrowthCeiling(sensorKind)]_vars

\* C18: every read flagged anomaly lowers the hunger by exactly the decrement
\* 1.0 from its value before the read (stated for the classes whose read
\* keeps a hunger).
AnomalyDropsByDecrement ==
    [][(/\ sensorKind \notin NoHungerKinds
        /\ lastRead'.who = "parent" /\ lastRead'.form = "valid" /\ parent' # parent
        /\ lastRead'.anomaly) =>
          parent'.hunger = parent.hunger - 100]_vars

\* C19: a clone starts with an empty buffer, and reads of the clone leave the
\* parent as it was, reads of the parent the clone.
CloneStartsEmptyAndApart ==
    [][/\ (~child.live /\ child'.live) => child'.buffer = <<>>
       /\ (child.live /\ lastRead'.who = "child") => parent' = parent
       /\ (child.live /\ lastRead'.who = "parent") => child' = child]_vars

-----------------------------------------------------------------------------
(* Claims about the evolver                                                *)

\* C20: every engine evolve registers (by mutate, crossover or clone) gets a
\* key that no engine of the population had before the call, with win = 0 and
\* trials = 0, and the engines and counters the population had are left as
\* they were.
OffspringRegisteredApart ==
    [][evolved'.born # <<>> =>
          /\ \A k \in Range(evolved'.born) :
                 /\ k \notin DOMAIN evolver_stats
                 /\ evolver_stats'[k] = NoCounts
          /\ \A k \in DOMAIN evolver_stats :
                 /\ evolver_stats'[k] = evolver_stats[k]
                 /\ engines'[k] = engines[k]]_vars

\* the key evolve made new_key of
ParentOf(k) == [base |-> k.base, tags |-> SubSeq(k.tags, 1, Len(k.tags) - 1)]

\* C21: the engine evolve takes as parent of a new variant is top-ranked by
\* win / trials at the time of the call: no engine of the population has a
\* higher ratio.  (The evolver knows no max_size; the size half of the claim
\* has no counterpart in evolve.)
ParentIsTopRanked ==
    [][evolved'.born # <<>> =>
          \A k \in Range(evolved'.born) :
              \A other \in DOMAIN evolver_stats :
                  ~ScoreLess(evolver_stats[ParentOf(k)], evolver_stats[other])]_vars

\* C22: an engine is retired only if it has been tried (trials above the
\* minimum, here 0) and no engine that stays has a lower win / trials; an
\* engine that has no trials yet, such as a variant just registered, is never
\* retired.
RetiredOnlyAfterTrials ==
    [][\A k \in DOMAIN evolver_stats \ DOMAIN evolver_stats' :
          /\ evolver_stats[k].trials > 0
          /\ \A stays \in DOMAIN evolver_stats' :
                 ~ScoreLess(evolver_stats[stays], evolver_stats[k])]_vars

\* C24: auto-tuning only tightens and is bounded: from any loaded
\* configuration no monitor_all cycle raises max_grid_size, and none takes it
\* below the floor 3.
TuningOnlyTightens ==
    [][/\ config'.max_grid_size <= config.max_grid_size
       /\ config.max_grid_size >= GridSizeFloor => config'.max_grid_size >= GridSizeFloor]_vars

\* the steps of a cycle in the order of the claim: the snapshot, then the
\* checks
CycleOrder ==
    <<"save_snapshot", "check_drawdown", "check_open_trades", "check_equity_margin",
      "check_grid_risk", "predict_risk">>

\* the snapshot and the checks of a cycle, in the order they ran
StepsOf(events) == SelectSeq(events, LAMBDA e : e \in Range(CycleOrder))

\* C25: in every monitor_all cycle the snapshot is taken first and the checks
\* then run in the order drawdown, open trades, margin level, grid size,
\* trend-risk prediction (a cycle cut short by an exception ran a prefix of
\* that order).
SnapshotThenChecksInOrder ==
    LET steps == StepsOf(guardianTrace)
    IN  /\ Len(steps) <= Len(CycleOrder)
        /\ steps = SubSeq(CycleOrder, 1, Len(steps))

-----------------------------------------------------------------------------
(* Claims about the engines                                                *)

\* C23: a feedback with positive reward does not raise the engine's hunger; a
\* feedback with non-positive reward lowers neither curiosity nor hunger, and
\* raises each of them unless it is at its cap 1.0.
MotivationFollowsReward ==
    [][engine_memory' = engine_memory + 1 =>
          /\ last_reward' > 0 => engine_hunger' <= engine_hunger
          /\ last_reward' <= 0 =>
                 /\ engine_hunger' >= engine_hunger
                 /\ engine_curiosity' >= engine_curiosity
                 /\ engine_hunger < 100 => engine_hunger' > engine_hunger
                 /\ engine_curiosity < 100 => engine_curiosity' > engine_curiosity]_vars

-----------------------------------------------------------------------------
(* Claims about read_environment                                           *)

\* generator g after a read, on its own, of the tick from the state it was
\* submitted in, and the anomaly flag of that read
AloneAnomaly(g) ==
    SymmetricAnomaly(Buffered(envSubmitted[g].buffer, ValueFor(g, envTick), EnvWindow),
                     ValueFor(g, envTick), envSubmitted[g].hunger)

ReadAlone(g) ==
    LET s == envSubmitted[g]
        h == HungerAfterRead(KindOf(g), s.hunger, AloneAnomaly(g))
    IN  [buffer |-> Buffered(s.buffer, ValueFor(g, envTick), EnvWindow),
         hunger |-> h,
         growth_signal |-> GrowthAfterRead(KindOf(g), h),
         results |-> s.results + 1]

\* C26: however the worker threads of read_environment interleave, a generator
\* whose read has not begun is as it was submitted (no read of another
\* generator touches it), and a generator whose read is done has the state
\* and the reading it has when read on its own.
ConcurrentReadsAreApart ==
    \A g \in Generators :
        /\ envPc[g] = "ready" => envGens[g] = envSubmitted[g]
        /\ envPc[g] = "done" =>
               /\ envGens[g] = ReadAlone(g)
               /\ envAnomaly[g] = AloneAnomaly(g)

\* the third tick: the read of the first generator is in the middle, after
\* the read of the second one ran to its end and evicted a value
ReadsInterleaved ==
    /\ envTicks = 3
    /\ envPc[1] = "judged"
    /\ envPc[2] = "done"
    /\ Len(envSubmitted[2].buffer) = EnvWindow
    /\ envGens[2].buffer # envSubmitted[2].buffer

-----------------------------------------------------------------------------
(* Claims about the main loop                                              *)

\* C27: a shutdown signal that arrives while a cycle is in flight stops the
\* loop only after that cycle is complete: every engine of the cycle has been
\* run when the loop ends on the signal, and no cycle starts afterwards.
ShutdownCompletesCycle ==
    [][/\ (mainPc = "cycle" /\ ending' = "interrupt") => nextEngine' = LoadedEngines + 1
       /\ ending = "interrupt" => n_cycle' = n_cycle]_vars

\* C30: the process restarts itself at most once.
AtMostOneRestart == restarts <= 1

-----------------------------------------------------------------------------
(* Claims about the context key                                            *)
-----------------------------------------------------------------------------

\* the one-decimal value nearest to x hundredths, in tenths (no reading of
\* ReadingSets lies half way between two of them)
NearestTenth(x) == (x + 5) \div 10

\* the value of the reading called name among the items of an input map
ReadingIn(items, name) ==
    LET at == {i \in DOMAIN items : items[i][1] = name}
    IN  IF at = {} THEN 0 ELSE items[CHOOSE i \in at : TRUE][2]

\* two input maps whose readings round to the same one-decimal values
SameCells(m1, m2) ==
    \A name \in {"noise", "pressure", "volume"} :
        NearestTenth(ReadingIn(m1, name)) = NearestTenth(ReadingIn(m2, name))

\* C28: two observations whose noise, pressure and volume round to the same
\* one-decimal values map to the same key, whatever the order of the readings in
\* the input map and whatever they differ by below the resolution: update()
\* counts the records of one engine under one key of the ledger, and suggest()
\* selects the same candidates for both.
SameCellsSameKey ==
    \A m1, m2 \in InputMaps :
        SameCells(m1, m2) =>
            /\ Candidates(knowledge, DictOf(m1)) = Candidates(knowledge, DictOf(m2))
            /\ ledgerOp = "update" =>
                   \A i, j \in DOMAIN ledgerArg :
                       ( /\ ledgerArg[i].env = DictOf(m1)
                         /\ ledgerArg[j].env = DictOf(m2)
                         /\ ledgerArg[i].engine = ledgerArg[j].engine )
                       => /\ KeyOf(ledgerArg[i]) = KeyOf(ledgerArg[j])
                          /\ KeyOf(ledgerArg[i]) \in DOMAIN knowledge
                          /\ KeyOf(ledgerArg[i])[2] = NearestTenth(ReadingIn(m1, "noise"))
                          /\ KeyOf(ledgerArg[i])[3] = NearestTenth(ReadingIn(m1, "pressure"))
                          /\ KeyOf(ledgerArg[i])[4] = NearestTenth(ReadingIn(m1, "volume"))

\* update() has recorded two observations of one engine that differ below the
\* resolution, and suggest() finds their common key from either of them
SubResolutionPairRecorded ==
    /\ ledgerOp = "update"
    /\ \E i, j \in DOMAIN ledgerArg :
           /\ ledgerArg[i].engine = ledgerArg[j].engine
           /\ ledgerArg[i].env # ledgerArg[j].env
           /\ KeyOf(ledgerArg[i]) = KeyOf(ledgerArg[j])
           /\ KeyOf(ledgerArg[i]) \in Candidates(knowledge, ledgerArg[i].env)
           /\ KeyOf(ledgerArg[i]) \in Candidates(knowledge, ledgerArg[j].env)

-----------------------------------------------------------------------------
(* Claims about MetaMaster                                                 *)
-----------------------------------------------------------------------------

-----------------------------------------------------------------------------
(* Claims about AutoEvolver                                                *)
-----------------------------------------------------------------------------

\* the order of the steps of evolve
EvolveOrder == <<"branch", "generate", "commit", "test", "merge">>

\* C31: evolve follows the order branch, generate, commit, test, merge: the
\* steps attempted, a rollback aside, are the first steps of that order; the
\* merge is attempted only after run_tests returned True; and evolve returns
\* True only if all five steps succeeded.
EvolveInOrder ==
    LET steps == SelectSeq(evoTrace, LAMBDA s : s.step # "rollback")
    IN  /\ Len(steps) <= Len(EvolveOrder)
        /\ \A i \in DOMAIN steps : steps[i].step = EvolveOrder[i]
        /\ \A i \in DOMAIN evoTrace :
               evoTrace[i].step = "merge" =>
                   i > 1 /\ evoTrace[i - 1] = Step("test", TRUE)
        /\ evoReturn = "True" =>
               /\ Len(evoTrace) = Len(EvolveOrder)
               /\ \A i \in DOMAIN evoTrace : evoTrace[i] = Step(EvolveOrder[i], TRUE)

\* a call has gone through all five steps and returned True
EvolveMerged ==
    /\ evoPc = "idle"
    /\ evoReturn = "True"
    /\ Len(evoTrace) = 5
    /\ evoTrace[5] = Step("merge", TRUE)

\* C32: whenever evolve has returned False after the evolution branch was
\* created, a rollback has been performed, the repository is on main and the
\* branch no longer exists.
FailureRolledBack ==
    ( /\ evoPc = "idle"
      /\ evoReturn = "False"
      /\ evoTrace # <<>>
      /\ evoTrace[1] = Step("branch", TRUE) )
    => /\ \E i \in DOMAIN evoTrace : evoTrace[i].step = "rollback"
       /\ head = Main
       /\ evoCall \notin branches

-----------------------------------------------------------------------------
(* Claims about the hive of sensors                                        *)
-----------------------------------------------------------------------------

\* C33: after one call of share_knowledge every member's knowledge_bank equals
\* the hive's, which equals the union of the hive's bank and all members'
\* banks before the call; no item is removed from any bank.
KnowledgeSharedByAll ==
    swarmOp = "share" =>
        /\ \A i \in DOMAIN member_banks : member_banks[i] = knowledge_bank
        /\ knowledge_bank = banks_before.hive \cup UnionOf(banks_before.members)
        /\ banks_before.hive \subseteq knowledge_bank
        /\ \A i \in DOMAIN member_banks :
               banks_before.members[i] \subseteq member_banks[i]

-----------------------------------------------------------------------------
(* Claims about the clone manager                                          *)
-----------------------------------------------------------------------------

\* C34: after select_and_archive the live list holds at most 2 clones, the
\* top-ranked by (reputation, performance) of the list before; every clone
\* dropped from the list has status "archived"; and no clone of the live list
\* ever has status "archived".
LiveAreTopRanked ==
    /\ [](\A id \in Range(clones) : clone_objs[id].status # "archived")
    /\ [][ (managerPc = "select" /\ managerPc' = "idle") =>
             /\ Len(clones') = Min2(top_n, Len(clones))
             /\ Range(clones') \subseteq Range(clones)
             /\ \A b \in Range(clones) \ Range(clones') :
                    /\ clone_objs'[b].status = "archived"
                    /\ \A a \in Range(clones') :
                           ~KeyAbove(RankKey(clone_objs[b]), RankKey(clone_objs[a])) ]_vars

\* select_and_archive has kept two clones and archived one that ranks below
\* them, and a clone that came later in the list was kept over an earlier one
LowerRankedArchived ==
    /\ managerPc = "idle"
    /\ Len(clones) = 2
    /\ \E b \in DOMAIN clone_objs :
           /\ clone_objs[b].status = "archived"
           /\ \A a \in Range(clones) :
                  KeyAbove(RankKey(clone_objs[a]), RankKey(clone_objs[b]))
           /\ \E a \in Range(clones) : a > b

\* C35: clone_self gives the child hunger_level = max(1, parent's - 1): every
\* clone has hunger_level >= 1, below its parent's when the parent's exceeds 1;
\* a clone with hunger_level <= 2 is never cloned by mass_cloning; the lineage
\* depth is at most initial_hunger - 2; and mass_cloning, once begun, ends: it
\* is always at a clone of the list, at the end of an iteration or at the
\* selection, and each step leaves fewer iterations, or as many and fewer
\* clones of the list to visit, until the selection ends it.
LineagesBoundedByHunger ==
    /\ [](\A id \in DOMAIN clone_objs :
             clone_objs[id].parent_id # 0 =>
                LET mine == clone_objs[id]
                    parents == clone_objs[mine.parent_id]
                IN  /\ mine.hunger_level >= 1
                    /\ mine.hunger_level = Max2(1, parents.hunger_level - 1)
                    /\ parents.hunger_level > 1 => mine.hunger_level < parents.hunger_level
                    /\ parents.hunger_level > 2
                    /\ DepthOf(clone_objs, id) <= clone_objs[1].hunger_level - 2)
    /\ [](managerPc # "idle" =>
             \/ managerPc = "select"
             \/ /\ managerPc = "loop"
                /\ iterations_left >= 1
                /\ clone_idx \in 1..(Len(clones) + 1))
    /\ [][ /\ managerPc = "loop" =>
                \/ iterations_left' < iterations_left /\ iterations_left' >= 0
                \/ /\ iterations_left' = iterations_left
                   /\ Len(clones') - clone_idx' < Len(clones) - clone_idx
                   /\ Len(clones') - clone_idx' >= -1
           /\ managerPc = "select" => managerPc' = "idle" ]_vars

\* mass_cloning has ended with a lineage as deep as the initial hunger allows:
\* a clone of hunger_level 2, which was not cloned again
DeepestLineageReached ==
    /\ managerPc = "idle"
    /\ \E id \in DOMAIN clone_objs :
           /\ id > 1
           /\ clone_objs[id].hunger_level = 2
           /\ DepthOf(clone_objs, id) = clone_objs[1].hunger_level - 2
           /\ \A other \in DOMAIN clone_objs : clone_objs[other].parent_id # id


(* Claims about the evolver's two dictionaries *)

\* the engines a step deleted
RemovedEngines == DOMAIN engines \ DOMAIN engines'

\* a step that is cleanup(keep_best_n) leaves at most keep_best_n engines,
\* and no engine left has a lower win / max(1, trials) than a deleted one
CleanupKeepsBest ==
    \A keep_best_n \in KeepChoices :
        Cleanup(keep_best_n) =>
            /\ Cardinality(DOMAIN engines') <= keep_best_n
            /\ \A k \in DOMAIN engines', r \in RemovedEngines :
                   ~ScoreLess(evolver_stats[k], evolver_stats[r])

\* C36: through evolve, cleanup and full_cycle the engines and the stats
\* have the same keys, and cleanup(keep_best_n) leaves at most keep_best_n
\* engines, none of a lower win rate than an engine it deleted.
SameKeysBestKept ==
    /\ [](DOMAIN engines = DOMAIN evolver_stats)
    /\ [][CleanupKeepsBest]_vars

\* the first engine was deleted by cleanup while a later engine with a win
\* was kept
FirstEngineCleanedAway ==
    /\ BaseKey("A") \notin DOMAIN engines
    /\ \E k \in DOMAIN engines : evolver_stats[k].win > 0


(* Claims about the engine's motivation range *)

\* C37: after any receive_feedback and meta_reflect calls on a new engine,
\* hunger and curiosity are both within [0, 1].
MotivationInRange ==
    /\ engine_hunger \in 0..100
    /\ engine_curiosity \in 0..100


(* Claims about the win and trials counters *)

\* an entry holds natural numbers, no more wins than trials
SoundEntry(e) == e.win \in Nat /\ e.trials \in Nat /\ e.win <= e.trials

\* C38: after any update, merge_knowledge and receive_feedback calls whose
\* batches and remote entries have no more wins than trials, every entry of
\* the ledger and of the stats holds non-negative integers with
\* win <= trials.
CountersSound ==
    /\ \A k \in DOMAIN knowledge : SoundEntry(knowledge[k])
    /\ \A e \in DOMAIN stats : SoundEntry(stats[e])

\* an entry with wins was merged into a ledger that update had filled, and
\* a success was counted in the stats
BlendedAndCounted ==
    /\ ledgerOp = "merge_knowledge"
    /\ \E k \in DOMAIN knowledge \cap DOMAIN ledgerArg :
           /\ knowledge[k].win >= 2
           /\ knowledge[k].trials > ledgerArg[k].trials
    /\ \E e \in DOMAIN stats : stats[e].win >= 1 /\ stats[e].trials >= 3


(* Claims about the data loop of the MT5 provider *)

\* the error at which the loop stops
LastError == IF provider_auto_restart THEN max_retries ELSE 1

\* a step that is the except clause counts one retry; before the last error
\* it shuts MT5 down and leaves the loop running, at the last error it
\* clears self.running
HandlerCounts ==
    LoopHandler =>
        /\ retries' = retries + 1
        /\ retries' < LastError => running' = running /\ ~mt5_initialized'
        /\ retries' >= LastError => ~running'

\* C39: every iteration that raises counts one retry and no other iteration
\* changes the count; the loop goes on after the errors before the
\* max_retries-th and stops at that one (at the first without auto_restart),
\* so a loop whose every iteration raises ends after exactly that many
\* iterations.
RetriesEndTheLoop ==
    /\ [][HandlerCounts]_vars
    /\ [][loopPc \notin {"spawned", "handler"} => retries' = retries]_vars
    /\ [](retries <= LastError)
    /\ [](loopPc = "exited" /\ stopPc = "idle" => retries = LastError)
    /\ [](loopPc = "exited" /\ stopPc = "idle" /\ turns = retries => turns = LastError)

\* the loop ended at its third error although an iteration between the
\* errors succeeded
ThirdErrorEndedLoop ==
    /\ loopPc = "exited"
    /\ stopPc = "idle"
    /\ provider_auto_restart
    /\ max_retries = 3
    /\ retries = 3
    /\ turns > retries

\* C40: once stop() has returned and the loop thread has exited, MT5 is shut
\* down.
StoppedIsShutDown ==
    stopPc = "returned" /\ loopPc = "exited" => ~mt5_initialized

=============================================================================
